---- MODULE Spec2Model ----
(***************************************************************************)
(* Model of the upstream proxy engine of src/src/google_chat_api.py:       *)
(* send_gemini_request, its helpers, and the two response handlers.        *)
(*                                                                         *)
(* One request is driven through the retry loop; every loop iteration      *)
(* (one upstream attempt and everything the code does with its outcome)    *)
(* is one action.  The credential pool (CredentialManager, imported at     *)
(* line 29) is not among the source files: its five operations are         *)
(* modelled from section 4.1 of the specification.                         *)
(*                                                                         *)
(* `trace' is the history an instrumented upstream and an instrumented     *)
(* pool would record for the request:                                      *)
(*   op = "send"    the upstream answered; cred is the credential whose    *)
(*                  headers were sent, code the status (0 = transport      *)
(*                  exception), ok = (code = 200)                          *)
(*   op = "record"  record_api_call_result(cred, ok, code)                 *)
(*   op = "refresh" force_refresh_current_token() returned ok              *)
(*   op = "disable" set_cred_disabled(cred, True)                          *)
(*   op = "rotate"  force_rotate_credential(); cred is the new cursor, ok  *)
(*                  tells whether an active credential was found           *)
(* The k-th "send" of the trace is the attempt with index k-1.  `body' is  *)
(* the kind of body the upstream sent with a unary 200, `lines' the lines  *)
(* read so far from a 200 event stream, `frames' what the client was sent, *)
(* `ended' the way the stream generator was left, and `resources' the log  *)
(* of the HTTP clients and stream contexts the request opened and closed.  *)
(*                                                                         *)
(* Spec follows a request from its entry; SpecGen follows the generator of *)
(* a 200 stream from the hand-over, over longer streams.  SpecIP is the    *)
(* IP manager of src/src/ip_manager.py, called at the instants of a clock, *)
(* from the empty store; every call is one action.  SpecBan follows the    *)
(* bans of an operator from a loaded store, and SpecConc concurrent bans,  *)
(* where a call is one action per stretch between two awaits at which      *)
(* other calls run (`calls').  SpecSweep runs the two periodic sweeps on   *)
(* a loaded store, SpecUA the requests of one address with its user        *)
(* agents, and SpecRank the ranking query over a loaded store.             *)
(* SpecCheck runs check_ip_allowed alone on a loaded store, SpecSave the   *)
(* calls together with the periodic save (`ip_stats' is the content of     *)
(* the store file), and SpecStatus set_ip_status alone.  SpecLock follows  *)
(* concurrent calls through the store lock (`_cache_lock' is its holder),  *)
(* SpecBoot concurrent get_ip_manager() and initialize() calls (`started'  *)
(* logs the load and the background tasks), and SpecCancel a request       *)
(* whose task is cancelled during a streaming attempt.                     *)
(***************************************************************************)
EXTENDS Integers, Sequences, FiniteSets, TLC

\* ---- bounds -------------------------------------------------------------
NumCreds == 2
MaxRetries == 2
MaxLines == 1
\* Lines of a stream followed from the hand-over to the generator (SpecGen).
MaxStreamLines == 3
\* Requests recorded for a client address (SpecIP).
MaxRequests == 2
\* Concurrent set_ip_status calls of one operator.
NumCalls == 4
\* Calls on the manager that run concurrently when the store lock is followed.
NumTasks == 2
\* Requests recorded for an address whose user agents are followed.
MaxUARequests == 3
\* The largest page and page_size asked of the ranking.
MaxPage == 4
MaxPageSize == 2

\* ---- vocabulary ---------------------------------------------------------
Creds == 1..NumCreds
None == 0
\* Upstream statuses: success, quota, server error, auth error, permanent
\* rejection, and one status outside every policy class.
Statuses == {200, 429, 500, 401, 403, 418}
\* Statuses the operator may put in auto_ban_error_codes.  429 is left out:
\* both paths test `status_code == 429' before any auto-ban test.
BannableStatuses == {401, 403, 500}
AuthStatuses == {400, 401, 404}
\* Unary 200 bodies: {"response": ...}, a JSON object without that key,
\* and bytes that are not JSON.
BodyKinds == {"wrapped", "bare", "garbage"}
\* Lines of a 200 event stream.  Behind "data: ": a JSON object with the key
\* "response" ("wrapped"); JSON on which the test `"response" in obj' is
\* false ("bare": an object, list or string without it); JSON on which the
\* test or the subscript raises TypeError ("scalar": a number, true, false,
\* null; a list or string that contains "response"); bytes that are not JSON
\* ("garbage").  "nodata" is a line that is empty or does not start with
\* "data: ".
LineKinds == {"wrapped", "bare", "scalar", "garbage", "nodata"}

VARIABLES
    max_retries, retry_429_enabled, auto_ban_enabled, auto_ban_error_codes,
    is_streaming,
    disabled, cursor,
    pc, attempt, current_file, response, trace, body,
    success_recorded, lines, frames, ended,
    resources,
    ip_cache, _cache_dirty, ban_operations, now, last_call, calls,
    _cache_lock, _initialized, _ip_manager_instance, started, ip_stats

cfgVars == <<max_retries, retry_429_enabled, auto_ban_enabled,
             auto_ban_error_codes, is_streaming>>
poolVars == <<disabled, cursor>>
reqVars == <<pc, attempt, current_file, response, trace, body>>
genVars == <<success_recorded, lines, frames, ended>>
bootVars == <<_cache_lock, _initialized, _ip_manager_instance, started>>
mgrVars == <<bootVars, ip_stats>>
ipVars == <<ip_cache, _cache_dirty, ban_operations, now, last_call, calls,
           mgrVars>>
vars == <<cfgVars, poolVars, reqVars, genVars, resources, ipVars>>

Entry(op, cred, ok, code) == [op |-> op, cred |-> cred, ok |-> ok, code |-> code]

\* ---- credential pool (specification section 4.1) -------------------------
\* The engine's view of the pool and of its own binding, threaded through
\* the calls one loop iteration makes.
Eng == [disabled |-> disabled, cursor |-> cursor, trace |-> trace,
        current_file |-> current_file]

SuccCred(c) == (c % NumCreds) + 1

RECURSIVE NextActiveFrom(_, _, _)
NextActiveFrom(c, dis, k) ==
    IF k = 0 THEN None
    ELSE IF c \notin dis THEN c
    ELSE NextActiveFrom(SuccCred(c), dis, k - 1)

\* borrow(): the active credential at the cursor, else the next active one;
\* None only if every credential is disabled.
get_valid_credential(e) ==
    LET c == NextActiveFrom(e.cursor, e.disabled, NumCreds)
    IN  [eng |-> IF c = None THEN e ELSE [e EXCEPT !.cursor = c],
         result |-> c]

\* rotate(): advance the cursor to the next active credential, no call count.
force_rotate_credential(e) ==
    LET c == NextActiveFrom(SuccCred(e.cursor), e.disabled, NumCreds)
        to == IF c = None THEN e.cursor ELSE c
    IN  [e EXCEPT !.cursor = to,
                  !.trace = Append(@, Entry("rotate", to, c # None, 0))]

\* disable(id)
set_cred_disabled(e, c) ==
    [e EXCEPT !.disabled = @ \cup {c},
              !.trace = Append(@, Entry("disable", c, TRUE, 0))]

\* refresh_current(): ok is the identity provider's answer.
force_refresh_current_token(e, ok) ==
    [e EXCEPT !.trace = Append(@, Entry("refresh", e.cursor, ok, 0))]

\* record(id, ok, status_code?)
record_api_call_result(e, c, ok, code) ==
    [e EXCEPT !.trace = Append(@, Entry("record", c, ok, code))]

\* ---- helpers of send_gemini_request --------------------------------------
\* The upstream answers the attempt sent with the bound credential's headers.
upstream(e, code) ==
    [e EXCEPT !.trace = Append(@, Entry("send", e.current_file, code = 200, code))]

\* `if credential_manager and current_file: record_api_call_result(...)'
record_if_bound(e, ok, code) ==
    IF e.current_file # None
    THEN record_api_call_result(e, e.current_file, ok, code)
    ELSE e

_check_should_auto_ban(status) ==
    auto_ban_enabled /\ status \in auto_ban_error_codes

\* A ban that forgets to disable the credential.
_handle_auto_ban_RotateOnly(e, status) ==
    IF e.current_file # None
    THEN force_rotate_credential(e)
    ELSE e

_handle_auto_ban(e, status) ==
    IF e.current_file # None
    THEN force_rotate_credential(set_cred_disabled(e, e.current_file))
    ELSE e

\* An error handler that bans on every status, whatever the configuration.
_handle_api_error_AlwaysBan(e, status) ==
    IF status = 429
    THEN force_rotate_credential(e)
    ELSE force_rotate_credential(
             IF e.current_file # None
             THEN set_cred_disabled(e, e.current_file)
             ELSE e)

_handle_api_error(e, status) ==
    IF status = 429
    THEN force_rotate_credential(e)
    ELSE IF _check_should_auto_ban(status)
    THEN force_rotate_credential(
             IF e.current_file # None
             THEN set_cred_disabled(e, e.current_file)
             ELSE e)
    ELSE e

\* Borrow again and rebind file, headers and payload; a None result leaves
\* the old binding in place (`if next_cred_result:').
_get_next_credential(e) ==
    LET r == get_valid_credential(e)
    IN  IF r.result # None
        THEN [r.eng EXCEPT !.current_file = r.result]
        ELSE r.eng

\* ---- upstream resources --------------------------------------------------
\* `resources' is the log an instrumented HTTP layer keeps for the request:
\*   "client"  an HTTP client was created
\*   "aenter"  stream_ctx.__aenter__() returned the upstream's response
\*   "aexit"   stream_ctx.__aexit__(None, None, None) was called
\*   "aclose"  client.aclose() was called
\* Lines 268-275: a streaming attempt creates its client and enters the
\* stream.
open_stream(r) == r \o <<"client", "aenter">>

\* A cleanup that closes the client and leaves the stream context entered.
cleanup_ClientOnly(r) == r \o <<"aclose">>

\* Lines 302-307 and 368-373: `# 清理资源' after a non-200 status.
cleanup(r) == r \o <<"aexit", "aclose">>

\* Line 471: `async with http_client.get_client(timeout=None) as client'
\* around one unary attempt; lines 461-467: a streaming attempt whose
\* __aenter__ raised closes the client it created.
client_only(r) == r \o <<"client", "aclose">>

\* ---- responses -----------------------------------------------------------
NoResponse == [status |-> 0, media |-> "none", code |-> 0, content |-> "none"]

\* _create_error_response: {"error": {message, type: "api_error", code}}
_create_error_response(status) ==
    [status |-> status, media |-> "json", code |-> status, content |-> "error"]

\* error_stream(): the same object as the only "data:" frame
error_stream(status) ==
    [status |-> status, media |-> "sse", code |-> status, content |-> "error"]

\* ---- IP manager: the store (src/src/ip_manager.py) -----------------------
\* `ip_cache' is self._ip_cache["ips"]: a record per known address, with the
\* fields the decisions of the module read.  A field a Python record does
\* not carry has the default the code reads it with (.get(key, 0), and ""
\* for today_date, which is day 0 here).  `ban_operations' is the content of
\* ban_operations.toml: a list of timestamps per operator.  `now' is
\* time.time().  `last_call' is the last call made on the manager and what
\* it returned.
\* Addresses are strings; "" stands for an operator_ip that is None or
\* empty (the code tests `if operator_ip:').
IPs == {"203.0.113.7"}
Operators == {"198.51.100.1"}
NoOperator == ""
IPStatuses == {"active", "banned", "rate_limited"}
\* The addresses of a loaded store, in the order of their keys in
\* self._ip_cache["ips"] (a dict keeps the order of insertion).
KnownIPs == <<"203.0.113.7", "203.0.113.8", "203.0.113.9">>
SweepIPs == {KnownIPs[1], KnownIPs[2]}

\* The User-Agent headers of the clients, in the order in which an address
\* first sent them; "" stands for a request without one (None or empty: the
\* code tests `if user_agent').
UserAgents == <<"agent/01", "agent/02", "agent/03", "agent/04", "agent/05",
                "agent/06", "agent/07", "agent/08", "agent/09", "agent/10",
                "agent/11", "agent/12">>
NoUserAgent == ""
\* Line 261: the endpoint a request is recorded under by default.
DefaultEndpoint == "/v1/chat/completions"
\* The model a request names; "" stands for a request that names none (the
\* code tests `if model').
Models == {"gemini-2.5-pro"}
NoModel == ""
\* Line 339: ip_data["user_agents"][-10:]
MaxUserAgents == 10

\* Line 238 (and 127): a ban lasts 24 hours.
BanDuration == 86400
\* Line 251 (and 293): ip_data.get("rate_limit_seconds", 60)
DefaultRateLimit == 60
\* Line 622: fewer requests today protect a known address from a ban.
MinTodayToBan == 80
\* Lines 569-570
max_bans == 3
time_window == 3600

\* The instants at which the manager is called: a start in the UTC+8 morning
\* of a day, then the instants just before and at the ends of a 30 s and of
\* the default rate limit, the next UTC+8 midnight, just before and at the
\* end of a ban placed at the start, and three days after the start.
Clock == {1700000000 + d : d \in {0, 29, 30, 59, 60, 64000, 86399, 86400, 259200}}
FirstInstant == CHOOSE t \in Clock : \A u \in Clock : t <= u

\* A second operator, whose one ban is in ban_operations.toml when an
\* operator's bans are followed from a loaded store.
OtherOperator == "198.51.100.2"

\* The instants of an operator's calls: three bans within 20 minutes, then the instants
\* just before, at and just after the hour of the first one, and an instant
\* at which all three are older than an hour.
BanClock == {FirstInstant + d : d \in {0, 600, 1200, 3599, 3600, 3601, 4801}}

\* datetime.now(UTC_PLUS_8).strftime("%Y-%m-%d"): the day of the UTC+8
\* calendar the instant falls in, as a day number.
today_date_at(t) == (t + 8 * 3600) \div 86400

EmptyStore == [i \in {} |-> 0]
NoCall == [op |-> "none", ip |-> "", ret |-> TRUE]

Put(cache, ip, d) ==
    [i \in DOMAIN cache \cup {ip} |-> IF i = ip THEN d ELSE cache[i]]

\* The set_ip_status calls that run concurrently, and where each one is:
\* "idle" (not entered), "record_load" (ban applied, lock released, about to
\* load the ban-operation file), "record_save" (file loaded into ban_data,
\* about to append and save), "done" (returned ret).  Where the store lock
\* is followed, a call is also at "limit_check" (suspended in the await of
\* line 628, the read of the ban-operation file) or at "locating"
\* (suspended in the await of line 309 or 639, the HTTP calls of
\* _get_ip_location); `op' and `ip' are the method called and its
\* address, and `at' is the time.time() at which the call ran its body.
Calls == 1..NumCalls
IdleCall == [pc |-> "idle", ret |-> FALSE, ban_data |-> EmptyStore,
             op |-> "", ip |-> "", at |-> 0]
NoCalls == [c \in Calls |-> IdleCall]

\* The global instance (line 769) once get_ip_manager has made it.
TheManager == 1
\* Lines 49-57: what initialize() starts, in the order of the code.
Started == <<"_load_ip_data", "_periodic_save", "_periodic_unban_check">>

\* Lines 27-34, 36-62 and 772-779: the manager after get_ip_manager() has
\* returned to its first caller, with no call in progress: the lock is free,
\* the file was loaded once and the two periodic tasks were started.
ManagerReady ==
    /\ _cache_lock = None
    /\ _initialized = TRUE
    /\ _ip_manager_instance = TheManager
    /\ started = Started

\* Lines 36-62 and 73: initialize() when no ip_stats.toml and no
\* ban_operations.toml exist.
IPInit ==
    /\ ip_cache = EmptyStore
    /\ _cache_dirty = FALSE
    /\ ban_operations = EmptyStore
    /\ now = FirstInstant
    /\ last_call = NoCall
    /\ calls = NoCalls
    /\ ManagerReady
    /\ ip_stats = ip_cache

\* No request is in the engine.
EngineIdle ==
    /\ max_retries = 0
    /\ retry_429_enabled = FALSE
    /\ auto_ban_enabled = FALSE
    /\ auto_ban_error_codes = BannableStatuses
    /\ is_streaming = FALSE
    /\ disabled = {}
    /\ cursor = 1
    /\ pc = "start"
    /\ attempt = 0
    /\ current_file = None
    /\ response = NoResponse
    /\ trace = <<>>
    /\ body = "none"
    /\ success_recorded = FALSE
    /\ lines = <<>>
    /\ frames = <<>>
    /\ ended = "no"
    /\ resources = <<>>

\* ---- state ---------------------------------------------------------------
TypeOK ==
    /\ max_retries \in 0..MaxRetries
    /\ retry_429_enabled \in BOOLEAN
    /\ auto_ban_enabled \in BOOLEAN
    /\ auto_ban_error_codes \subseteq BannableStatuses
    /\ is_streaming \in BOOLEAN
    /\ disabled \subseteq Creds
    /\ cursor \in Creds
    /\ pc \in {"start", "loop", "stream", "done", "cancelled"}
    /\ attempt \in 0..(MaxRetries + 1)
    /\ current_file \in Creds \cup {None}
    /\ success_recorded \in BOOLEAN
    /\ body \in BodyKinds \cup {"none"}
    /\ ended \in {"no", "exhausted", "raise", "cancel"}
    /\ resources \in Seq({"client", "aenter", "aexit", "aclose"})
    /\ DOMAIN ip_cache \subseteq {KnownIPs[k] : k \in DOMAIN KnownIPs}
    /\ \A i \in DOMAIN ip_cache :
          /\ ip_cache[i].status \in IPStatuses
          /\ ip_cache[i].total_requests \in Nat
          /\ ip_cache[i].today_requests \in Nat
    /\ _cache_dirty \in BOOLEAN
    /\ DOMAIN ban_operations \subseteq Operators \cup {OtherOperator}
    /\ now \in Nat
    /\ \A c \in Calls :
          /\ calls[c].pc \in {"idle", "limit_check", "locating", "record_load",
                             "record_save", "loading", "done"}
          /\ calls[c].ret \in BOOLEAN
    /\ _cache_lock \in Calls \cup {None}
    /\ _initialized \in BOOLEAN
    /\ _ip_manager_instance \in {None, TheManager}
    /\ started \in Seq({Started[k] : k \in DOMAIN Started})
    /\ DOMAIN ip_stats \subseteq {KnownIPs[k] : k \in DOMAIN KnownIPs}

\* The request finds the pool with any set of credentials disabled.  The
\* pool is a ring, so the credentials are numbered from the position the
\* cursor has when the request starts.  The code set is read only behind
\* auto_ban_enabled (_check_should_auto_ban), so a disabled auto-ban is
\* explored with the full set, where the switch is all that prevents a ban.
Init ==
    /\ max_retries \in 0..MaxRetries
    /\ retry_429_enabled \in BOOLEAN
    /\ auto_ban_enabled \in BOOLEAN
    /\ auto_ban_error_codes \in SUBSET BannableStatuses
    /\ auto_ban_enabled \/ auto_ban_error_codes = BannableStatuses
    /\ is_streaming \in BOOLEAN
    /\ disabled \in SUBSET Creds
    /\ cursor = 1
    /\ pc = "start"
    /\ attempt = 0
    /\ current_file = None
    /\ response = NoResponse
    /\ trace = <<>>
    /\ success_recorded = FALSE
    /\ body = "none"
    /\ lines = <<>>
    /\ frames = <<>>
    /\ ended = "no"
    /\ resources = <<>>
    /\ IPInit

\* Install the engine view e as the next state of pool, binding and trace.
Commit(e) ==
    /\ disabled' = e.disabled
    /\ cursor' = e.cursor
    /\ trace' = e.trace
    /\ current_file' = e.current_file

\* `return <response>'
Return(e, r) ==
    /\ Commit(e)
    /\ pc' = "done"
    /\ response' = r
    /\ UNCHANGED attempt

\* A retry that goes round again without taking a new attempt index.
Continue_SameAttempt(e) ==
    /\ Commit(e)
    /\ UNCHANGED <<pc, response, attempt>>

\* `continue': the for loop of line 264 takes the next attempt index, or,
\* when range(max_retries + 1) is used up, falls through to line 585.
Continue(e) ==
    IF attempt + 1 > max_retries
    THEN Return(e, _create_error_response(429))
    ELSE /\ Commit(e)
         /\ attempt' = attempt + 1
         /\ UNCHANGED <<pc, response>>

\* The body of `for attempt in range(max_retries + 1)' is entered.
InLoop == pc = "loop" /\ attempt <= max_retries

\* ---- send_gemini_request -------------------------------------------------
\* Lines 231-262: read the configuration and borrow the first credential.
Start ==
    /\ pc = "start"
    /\ LET r == get_valid_credential(Eng)
       IN  IF r.result = None
           THEN /\ pc' = "done"
                /\ response' = _create_error_response(500)
                /\ UNCHANGED <<disabled, cursor, trace, current_file>>
           ELSE /\ Commit([r.eng EXCEPT !.current_file = r.result])
                /\ pc' = "loop"
                /\ UNCHANGED response
    /\ UNCHANGED <<cfgVars, ipVars, genVars, attempt, body, resources>>

\* A streaming retry that records the failure a second time, as the unary
\* path does at line 523.
StreamAutoBanRetry_RecordsAgain(e, status, refresh_success) ==
    LET e1 == record_if_bound(e, FALSE, status)
    IN  IF status \in AuthStatuses
        THEN LET e2 == force_refresh_current_token(e1, refresh_success)
             IN  IF refresh_success
                 THEN Continue(_get_next_credential(e2))
                 ELSE Continue(_get_next_credential(_handle_auto_ban(e2, status)))
        ELSE Continue(_get_next_credential(_handle_auto_ban(e1, status)))

\* Lines 388-426: an auto-ban status with retries left (streaming path; the
\* failed call was recorded at line 363).
StreamAutoBanRetry(e, status, refresh_success) ==
    IF status \in AuthStatuses
    THEN LET e2 == force_refresh_current_token(e, refresh_success)
         IN  IF refresh_success
             THEN Continue(_get_next_credential(e2))
             ELSE Continue(_get_next_credential(_handle_auto_ban(e2, status)))
    ELSE Continue(_get_next_credential(_handle_auto_ban(e, status)))

\* Lines 277-341: the stream is entered and the upstream answers 429.
Stream429 ==
    /\ InLoop /\ is_streaming
    /\ LET e1 == record_if_bound(upstream(Eng, 429), FALSE, 429)
       IN  IF retry_429_enabled /\ attempt < max_retries
           THEN Continue(_get_next_credential(force_rotate_credential(e1)))
           ELSE Return(e1, error_stream(429))
    /\ resources' = cleanup(open_stream(resources))
    /\ UNCHANGED <<cfgVars, ipVars, genVars, body>>

\* Lines 342-449: the upstream answers a status other than 200 and 429.
StreamError ==
    /\ InLoop /\ is_streaming
    /\ \E status \in Statuses \ {200, 429}, refresh_success \in BOOLEAN :
         LET e1 == record_if_bound(upstream(Eng, status), FALSE, status)
         IN  IF 500 <= status /\ status < 600 /\ attempt < max_retries
             THEN Continue(e1)
             ELSE IF _check_should_auto_ban(status) /\ attempt < max_retries
             THEN StreamAutoBanRetry(e1, status, refresh_success)
             ELSE Return(_handle_api_error(e1, status), error_stream(status))
    /\ resources' = cleanup(open_stream(resources))
    /\ UNCHANGED <<cfgVars, ipVars, genVars, body>>

\* Lines 450-459 and 588-711: a 200 stream is handed to the generator.
StreamOK ==
    /\ InLoop /\ is_streaming
    /\ Commit(upstream(Eng, 200))
    /\ pc' = "stream"
    /\ response' = [status |-> 200, media |-> "sse", code |-> 0,
                    content |-> "frames"]
    /\ resources' = open_stream(resources)
    /\ UNCHANGED <<cfgVars, ipVars, genVars, attempt, body>>

\* A unary error path that lets the pool react before the call is recorded.
_handle_non_streaming_response_RecordsLast(e, status, b) ==
    IF status = 200
    THEN Return(record_if_bound(e, TRUE, 0),
                [status |-> 200, media |-> "json", code |-> 0,
                 content |-> CASE b = "wrapped" -> "inner"
                               [] b = "bare" -> "null"
                               [] OTHER -> "raw"])
    ELSE Return(record_if_bound(_handle_api_error(e, status), FALSE, status),
                _create_error_response(status))

\* Lines 714-794
_handle_non_streaming_response(e, status, b) ==
    IF status = 200
    THEN Return(record_if_bound(e, TRUE, 0),
                [status |-> 200, media |-> "json", code |-> 0,
                 content |-> CASE b = "wrapped" -> "inner"
                               [] b = "bare" -> "null"
                               [] OTHER -> "raw"])
    ELSE Return(_handle_api_error(record_if_bound(e, FALSE, status), status),
                _create_error_response(status))

\* A unary retry that bans the credential although its refresh succeeded.
UnaryAutoBanRetry_BanAfterRefresh(e, status, refresh_success) ==
    LET e1 == record_if_bound(e, FALSE, status)
    IN  IF status \in AuthStatuses
        THEN Continue(_get_next_credential(_handle_auto_ban(
                 force_refresh_current_token(e1, refresh_success), status)))
        ELSE Continue(_get_next_credential(_handle_auto_ban(e1, status)))

\* Lines 520-564: an auto-ban status with retries left (unary path).
UnaryAutoBanRetry(e, status, refresh_success) ==
    LET e1 == record_if_bound(e, FALSE, status)
    IN  IF status \in AuthStatuses
        THEN LET e2 == force_refresh_current_token(e1, refresh_success)
             IN  IF refresh_success
                 THEN Continue(_get_next_credential(e2))
                 ELSE Continue(_get_next_credential(_handle_auto_ban(e2, status)))
        ELSE Continue(_get_next_credential(_handle_auto_ban(e1, status)))

\* A unary 429 retry that stays on the credential that hit its quota.
Unary429_NoRotate ==
    /\ InLoop /\ ~is_streaming
    /\ LET e1 == record_if_bound(upstream(Eng, 429), FALSE, 429)
       IN  IF retry_429_enabled /\ attempt < max_retries
           THEN Continue(e1)
           ELSE Return(e1, _create_error_response(429))
    /\ resources' = client_only(resources)
    /\ UNCHANGED <<cfgVars, ipVars, genVars, body>>

\* Lines 474-503: the upstream answers the POST with 429.
Unary429 ==
    /\ InLoop /\ ~is_streaming
    /\ LET e1 == record_if_bound(upstream(Eng, 429), FALSE, 429)
       IN  IF retry_429_enabled /\ attempt < max_retries
           THEN Continue(_get_next_credential(force_rotate_credential(e1)))
           ELSE Return(e1, _create_error_response(429))
    /\ resources' = client_only(resources)
    /\ UNCHANGED <<cfgVars, ipVars, genVars, body>>

\* Lines 504-569: the upstream answers the POST with any other status.
UnaryOther ==
    /\ InLoop /\ ~is_streaming
    /\ \E status \in Statuses \ {429}, b \in BodyKinds,
          refresh_success \in BOOLEAN :
         /\ LET e0 == upstream(Eng, status)
           IN  IF status # 200 /\ 500 <= status /\ status < 600
                  /\ attempt < max_retries
               THEN Continue(e0)
               ELSE IF status # 200 /\ _check_should_auto_ban(status)
                       /\ attempt < max_retries
               THEN UnaryAutoBanRetry(e0, status, refresh_success)
               ELSE _handle_non_streaming_response(e0, status, b)
         /\ body' = IF status = 200 THEN b ELSE body
    /\ resources' = client_only(resources)
    /\ UNCHANGED <<cfgVars, ipVars, genVars>>

\* An exception handler that rotates the pool before it retries.
TransportException_Rotates ==
    /\ InLoop
    /\ LET e1 == upstream(Eng, 0)
       IN  IF attempt < max_retries
           THEN Continue(_get_next_credential(force_rotate_credential(e1)))
           ELSE Return(e1, _create_error_response(500))
    /\ resources' = client_only(resources)
    /\ UNCHANGED <<cfgVars, ipVars, genVars, body>>

\* Lines 461-467 and 571-582: the HTTP call raises.
TransportException ==
    /\ InLoop
    /\ LET e1 == upstream(Eng, 0)
       IN  IF attempt < max_retries
           THEN Continue(e1)
           ELSE Return(e1, _create_error_response(500))
    /\ resources' = client_only(resources)
    /\ UNCHANGED <<cfgVars, ipVars, genVars, body>>

\* ---- managed_stream_generator --------------------------------------------
\* A guaranteed-exit block that is skipped when the consumer goes away.
finally_SkippedOnCancel(r, how) ==
    IF how = "cancel" THEN r ELSE r \o <<"aexit", "aclose">>

\* Lines 700-709: the `finally' block of the generator; `how' is the way
\* the try block was left ("exhausted", "raise", "cancel").
finally(r, how) == r \o <<"aexit", "aclose">>

\* A generator that records a success for every data line.
GenRead_RecordsEveryLine(limit) ==
    /\ pc = "stream" /\ Len(lines) < limit
    /\ \E kind \in LineKinds :
         /\ lines' = Append(lines, kind)
         /\ IF kind = "nodata"
            THEN UNCHANGED <<success_recorded, frames, trace>>
            ELSE /\ success_recorded' = TRUE
                 /\ trace' = record_if_bound(Eng, TRUE, 0).trace
                 /\ frames' = CASE kind = "wrapped" -> Append(frames, "inner")
                                [] kind = "bare" -> Append(frames, "bare")
                                [] kind = "scalar" -> Append(frames, "error500")
                                [] OTHER -> frames
         /\ IF kind = "scalar"
            THEN /\ pc' = "done" /\ ended' = "raise"
                 /\ resources' = finally(resources, "raise")
            ELSE UNCHANGED <<pc, ended, resources>>
    /\ UNCHANGED <<cfgVars, ipVars, poolVars, attempt, current_file, response,
                   body>>

\* Lines 663-699: one line of the upstream stream is read, while fewer than
\* `limit' lines have been read.  The first line behind "data: " records the
\* success; a TypeError of the envelope test is caught at line 696 like an
\* error of the read: the error frame is sent and the generator ends.
GenRead(limit) ==
    /\ pc = "stream" /\ Len(lines) < limit
    /\ \E kind \in LineKinds :
         /\ lines' = Append(lines, kind)
         /\ IF kind = "nodata"
            THEN UNCHANGED <<success_recorded, frames, trace>>
            ELSE /\ success_recorded' = TRUE
                 /\ trace' = IF success_recorded THEN trace
                             ELSE record_if_bound(Eng, TRUE, 0).trace
                 /\ frames' = CASE kind = "wrapped" -> Append(frames, "inner")
                                [] kind = "bare" -> Append(frames, "bare")
                                [] kind = "scalar" -> Append(frames, "error500")
                                [] OTHER -> frames
         /\ IF kind = "scalar"
            THEN /\ pc' = "done" /\ ended' = "raise"
                 /\ resources' = finally(resources, "raise")
            ELSE UNCHANGED <<pc, ended, resources>>
    /\ UNCHANGED <<cfgVars, ipVars, poolVars, attempt, current_file, response,
                   body>>

\* The generator of a request that went through the retry loop.
GenLine == GenRead(MaxLines)

\* Lines 663 and 696-709: the generator ends: the upstream stream is
\* exhausted, a read raises, or the client goes away (the generator is
\* closed or its task cancelled while it is suspended).
GenClose ==
    /\ pc = "stream"
    /\ \E how \in {"exhausted", "raise", "cancel"} :
         /\ frames' = IF how = "raise" THEN Append(frames, "error500")
                       ELSE frames
         /\ resources' = finally(resources, how)
         /\ ended' = how
    /\ pc' = "done"
    /\ UNCHANGED <<cfgVars, ipVars, poolVars, attempt, current_file, response,
                   trace, body, success_recorded, lines>>

Next ==
    \/ Start
    \/ Stream429
    \/ StreamError
    \/ StreamOK
    \/ Unary429
    \/ UnaryOther
    \/ TransportException
    \/ GenLine
    \/ GenClose

Spec == Init /\ [][Next]_vars

\* ---- the generator from the hand-over on ---------------------------------
\* Lines 450-459: attempt 0 of a streaming request was answered 200 and
\* _handle_streaming_response_managed built the generator.
InitGen ==
    /\ max_retries \in 0..MaxRetries
    /\ retry_429_enabled = FALSE
    /\ auto_ban_enabled = FALSE
    /\ auto_ban_error_codes = BannableStatuses
    /\ is_streaming = TRUE
    /\ disabled \in SUBSET Creds
    /\ NextActiveFrom(1, disabled, NumCreds) # None
    /\ cursor = NextActiveFrom(1, disabled, NumCreds)
    /\ current_file = cursor
    /\ pc = "stream"
    /\ attempt = 0
    /\ response = [status |-> 200, media |-> "sse", code |-> 0,
                   content |-> "frames"]
    /\ trace = << Entry("send", current_file, TRUE, 200) >>
    /\ body = "none"
    /\ success_recorded = FALSE
    /\ lines = <<>>
    /\ frames = <<>>
    /\ ended = "no"
    /\ resources = open_stream(<<>>)
    /\ IPInit

GenStream == GenRead(MaxStreamLines)

NextGen ==
    \/ GenStream
    \/ GenClose

SpecGen == InitGen /\ [][NextGen]_vars

\* ---- IP manager: operations ----------------------------------------------
engVars == <<cfgVars, poolVars, reqVars, genVars, resources>>

Returns(op, ip, ret) == last_call' = [op |-> op, ip |-> ip, ret |-> ret]

\* ip_data.get("rate_limit_seconds", 60)
rate_limit_of(d) ==
    IF d.rate_limit_seconds = 0 THEN DefaultRateLimit ELSE d.rate_limit_seconds

\* A rate limit that ends one second early.
rate_limited_now_Early(d) ==
    d.status = "rate_limited"
    /\ now - d.last_request_time < rate_limit_of(d) - 1

\* Lines 249-254 and 291-296
rate_limited_now(d) ==
    d.status = "rate_limited" /\ now - d.last_request_time < rate_limit_of(d)

\* An admission check that stamps the record of the address it admits.
check_ip_allowed_Touches(ip) ==
    /\ IF ip \in DOMAIN ip_cache /\ ip_cache[ip].status = "banned"
       THEN IF ip_cache[ip].banned_time > 0
               /\ now - ip_cache[ip].banned_time >= BanDuration
            THEN /\ ip_cache' = [ip_cache EXCEPT ![ip].status = "active",
                                                 ![ip].auto_unbanned_time = now]
                 /\ _cache_dirty' = TRUE
                 /\ Returns("check_ip_allowed", ip, TRUE)
            ELSE /\ Returns("check_ip_allowed", ip, FALSE)
                 /\ UNCHANGED <<ip_cache, _cache_dirty>>
       ELSE IF ip \in DOMAIN ip_cache /\ ~rate_limited_now(ip_cache[ip])
       THEN /\ ip_cache' = [ip_cache EXCEPT ![ip].last_request_time = now]
            /\ _cache_dirty' = TRUE
            /\ Returns("check_ip_allowed", ip, TRUE)
       ELSE /\ Returns("check_ip_allowed", ip, ip \notin DOMAIN ip_cache)
            /\ UNCHANGED <<ip_cache, _cache_dirty>>
    /\ UNCHANGED <<engVars, mgrVars, calls, ban_operations, now>>

\* An admission check that lifts a ban only when it is older than 24 hours.
check_ip_allowed_LiftsLate(ip) ==
    /\ IF ip \in DOMAIN ip_cache /\ ip_cache[ip].status = "banned"
       THEN IF ip_cache[ip].banned_time > 0
               /\ now - ip_cache[ip].banned_time > BanDuration
            THEN /\ ip_cache' = [ip_cache EXCEPT ![ip].status = "active",
                                                 ![ip].auto_unbanned_time = now]
                 /\ _cache_dirty' = TRUE
                 /\ Returns("check_ip_allowed", ip, TRUE)
            ELSE /\ Returns("check_ip_allowed", ip, FALSE)
                 /\ UNCHANGED <<ip_cache, _cache_dirty>>
       ELSE /\ Returns("check_ip_allowed", ip,
                       ~(ip \in DOMAIN ip_cache /\ rate_limited_now(ip_cache[ip])))
            /\ UNCHANGED <<ip_cache, _cache_dirty>>
    /\ UNCHANGED <<engVars, mgrVars, calls, ban_operations, now>>

\* Lines 215-256
check_ip_allowed(ip) ==
    /\ IF ip \in DOMAIN ip_cache /\ ip_cache[ip].status = "banned"
       THEN IF ip_cache[ip].banned_time > 0
               /\ now - ip_cache[ip].banned_time >= BanDuration
            THEN /\ ip_cache' = [ip_cache EXCEPT ![ip].status = "active",
                                                 ![ip].auto_unbanned_time = now]
                 /\ _cache_dirty' = TRUE
                 /\ Returns("check_ip_allowed", ip, TRUE)
            ELSE /\ Returns("check_ip_allowed", ip, FALSE)
                 /\ UNCHANGED <<ip_cache, _cache_dirty>>
       ELSE /\ Returns("check_ip_allowed", ip,
                       ~(ip \in DOMAIN ip_cache /\ rate_limited_now(ip_cache[ip])))
            /\ UNCHANGED <<ip_cache, _cache_dirty>>
    /\ UNCHANGED <<engVars, mgrVars, calls, ban_operations, now>>

\* Lines 303-313: the record record_request creates for a new address.
new_record(today) ==
    [total_requests |-> 0, today_requests |-> 0, today_date |-> today,
     status |-> "active", banned_time |-> 0, last_request_time |-> 0,
     rate_limit_seconds |-> 0, auto_unbanned_time |-> 0, user_agents |-> <<>>,
     models_used |-> EmptyStore, endpoints |-> EmptyStore]

\* Lines 317-325
reset_if_new_day(d, today) ==
    IF d.today_date # today
    THEN [d EXCEPT !.today_requests = 0, !.today_date = today,
                   !.models_used = EmptyStore]
    ELSE d

\* A counter update that counts the request for today only.
count_request_TodayOnly(d) ==
    [d EXCEPT !.today_requests = @ + 1, !.last_request_time = now]

\* Lines 327-331
count_request(d) ==
    [d EXCEPT !.total_requests = @ + 1, !.today_requests = @ + 1,
              !.last_request_time = now]

\* A list cut to its ten oldest entries.
keep_recent_Oldest(agents) ==
    IF Len(agents) > MaxUserAgents THEN SubSeq(agents, 1, MaxUserAgents)
    ELSE agents

\* Line 339: ip_data["user_agents"][-10:]
keep_recent(agents) ==
    IF Len(agents) > MaxUserAgents
    THEN SubSeq(agents, Len(agents) - MaxUserAgents + 1, Len(agents))
    ELSE agents

\* Lines 333-339
record_user_agent(d, user_agent) ==
    IF /\ user_agent # NoUserAgent
       /\ \A k \in 1..Len(d.user_agents) : d.user_agents[k] # user_agent
    THEN [d EXCEPT !.user_agents = keep_recent(Append(@, user_agent))]
    ELSE d

\* Lines 341-350: one more use of the key in a map of counts.
count_use(uses, key) ==
    [k \in DOMAIN uses \cup {key} |->
        IF k = key THEN (IF key \in DOMAIN uses THEN uses[key] ELSE 0) + 1
        ELSE uses[k]]

\* Lines 317-350: the record after the request is counted.
update_stats(d, endpoint, user_agent, model) ==
    LET counted == record_user_agent(
                       count_request(reset_if_new_day(d, today_date_at(now))),
                       user_agent)
        used == IF model # NoModel
                THEN [counted EXCEPT !.models_used = count_use(@, model)]
                ELSE counted
    IN  [used EXCEPT !.endpoints = count_use(@, endpoint)]

\* A record_request that counts the endpoint before it refuses.
record_request_CountsRefused(ip, endpoint, user_agent, model) ==
    /\ IF ip \in DOMAIN ip_cache
          /\ (ip_cache[ip].status = "banned" \/ rate_limited_now(ip_cache[ip]))
       THEN /\ ip_cache' = [ip_cache EXCEPT
                               ![ip].endpoints = count_use(@, endpoint)]
            /\ Returns("record_request", ip, FALSE)
            /\ UNCHANGED _cache_dirty
       ELSE LET d == IF ip \in DOMAIN ip_cache THEN ip_cache[ip]
                     ELSE new_record(today_date_at(now))
            IN  /\ ip_cache' =
                       Put(ip_cache, ip,
                           update_stats(d, endpoint, user_agent, model))
                /\ _cache_dirty' = TRUE
                /\ Returns("record_request", ip, TRUE)
    /\ UNCHANGED <<engVars, mgrVars, calls, ban_operations, now>>

\* Lines 258-353
record_request(ip, endpoint, user_agent, model) ==
    /\ IF ip \in DOMAIN ip_cache
          /\ (ip_cache[ip].status = "banned" \/ rate_limited_now(ip_cache[ip]))
       THEN /\ Returns("record_request", ip, FALSE)
            /\ UNCHANGED <<ip_cache, _cache_dirty>>
       ELSE LET d == IF ip \in DOMAIN ip_cache THEN ip_cache[ip]
                     ELSE new_record(today_date_at(now))
            IN  /\ ip_cache' =
                       Put(ip_cache, ip,
                           update_stats(d, endpoint, user_agent, model))
                /\ _cache_dirty' = TRUE
                /\ Returns("record_request", ip, TRUE)
    /\ UNCHANGED <<engVars, mgrVars, calls, ban_operations, now>>

\* Lines 476-518: the data the caller gets and the file as it is left.  The
\* cleaned data replace the loaded ones only if some operator lost all of
\* its timestamps (`if removed_count > 0').
_load_ban_operations(file) ==
    LET valid(o) == SelectSeq(file[o], LAMBDA ts : now - ts < time_window)
        kept == {o \in DOMAIN file : valid(o) # <<>>}
        cleaned == [o \in kept |-> valid(o)]
    IN  IF kept # DOMAIN file
        THEN [data |-> cleaned, file |-> cleaned]
        ELSE [data |-> file, file |-> file]

operator_records(data, operator_ip) ==
    IF operator_ip \in DOMAIN data THEN data[operator_ip] ELSE <<>>

\* Lines 559-590
_check_ban_operation_limit(file, operator_ip) ==
    LET l == _load_ban_operations(file)
    IN  [allowed |-> Len(operator_records(l.data, operator_ip)) < max_bans,
         file |-> l.file]

\* Lines 535-557: the file after the operation is recorded.
_record_ban_operation(file, operator_ip) ==
    LET l == _load_ban_operations(file)
    IN  Put(l.data, operator_ip,
            Append(operator_records(l.data, operator_ip), now))

\* Lines 635-640: the record set_ip_status creates for a new address.
new_status_record ==
    [total_requests |-> 0, today_requests |-> 0, today_date |-> 0,
     status |-> "active", banned_time |-> 0, last_request_time |-> 0,
     rate_limit_seconds |-> 0, auto_unbanned_time |-> 0, user_agents |-> <<>>,
     models_used |-> EmptyStore, endpoints |-> EmptyStore]

\* A status change that does not stamp the ban.
apply_status_NoBanTime(d, status, rate_limit_seconds) ==
    LET d1 == [d EXCEPT !.status = status]
    IN  IF status = "rate_limited" /\ rate_limit_seconds # None
        THEN [d1 EXCEPT !.rate_limit_seconds = rate_limit_seconds]
        ELSE d1

\* Lines 642-650
apply_status(d, status, rate_limit_seconds) ==
    LET d1 == [d EXCEPT !.status = status]
        d2 == IF status = "banned" THEN [d1 EXCEPT !.banned_time = now] ELSE d1
    IN  IF status = "rate_limited" /\ rate_limit_seconds # None
        THEN [d2 EXCEPT !.rate_limit_seconds = rate_limit_seconds]
        ELSE d2

\* A set_ip_status that records the operation of a ban it throttles.
set_ip_status_RecordsThrottled(ip, status, rate_limit_seconds, operator_ip) ==
    /\ IF status \notin IPStatuses
       THEN /\ Returns("set_ip_status", ip, FALSE)
            /\ UNCHANGED <<ip_cache, _cache_dirty, ban_operations>>
       ELSE IF status = "banned" /\ ip \in DOMAIN ip_cache
               /\ ip_cache[ip].today_requests < MinTodayToBan
       THEN /\ Returns("set_ip_status", ip, FALSE)
            /\ UNCHANGED <<ip_cache, _cache_dirty, ban_operations>>
       ELSE IF status = "banned" /\ operator_ip # NoOperator
               /\ ~_check_ban_operation_limit(ban_operations, operator_ip).allowed
       THEN /\ Returns("set_ip_status", ip, FALSE)
            /\ ban_operations' =
                   _record_ban_operation(
                       _check_ban_operation_limit(
                           ban_operations, operator_ip).file,
                       operator_ip)
            /\ UNCHANGED <<ip_cache, _cache_dirty>>
       ELSE LET d == IF ip \in DOMAIN ip_cache THEN ip_cache[ip]
                     ELSE new_status_record
            IN  /\ ip_cache' = Put(ip_cache, ip,
                                   apply_status(d, status, rate_limit_seconds))
                /\ _cache_dirty' = TRUE
                /\ ban_operations' =
                       IF status = "banned" /\ operator_ip # NoOperator
                       THEN _record_ban_operation(
                                _check_ban_operation_limit(
                                    ban_operations, operator_ip).file,
                                operator_ip)
                       ELSE ban_operations
                /\ Returns("set_ip_status", ip, TRUE)
    /\ UNCHANGED <<engVars, mgrVars, calls, now>>

\* Lines 592-659
set_ip_status(ip, status, rate_limit_seconds, operator_ip) ==
    /\ IF status \notin IPStatuses
       THEN /\ Returns("set_ip_status", ip, FALSE)
            /\ UNCHANGED <<ip_cache, _cache_dirty, ban_operations>>
       ELSE IF status = "banned" /\ ip \in DOMAIN ip_cache
               /\ ip_cache[ip].today_requests < MinTodayToBan
       THEN /\ Returns("set_ip_status", ip, FALSE)
            /\ UNCHANGED <<ip_cache, _cache_dirty, ban_operations>>
       ELSE IF status = "banned" /\ operator_ip # NoOperator
               /\ ~_check_ban_operation_limit(ban_operations, operator_ip).allowed
       THEN /\ Returns("set_ip_status", ip, FALSE)
            /\ ban_operations' =
                   _check_ban_operation_limit(ban_operations, operator_ip).file
            /\ UNCHANGED <<ip_cache, _cache_dirty>>
       ELSE LET d == IF ip \in DOMAIN ip_cache THEN ip_cache[ip]
                     ELSE new_status_record
            IN  /\ ip_cache' = Put(ip_cache, ip,
                                   apply_status(d, status, rate_limit_seconds))
                /\ _cache_dirty' = TRUE
                /\ ban_operations' =
                       IF status = "banned" /\ operator_ip # NoOperator
                       THEN _record_ban_operation(
                                _check_ban_operation_limit(
                                    ban_operations, operator_ip).file,
                                operator_ip)
                       ELSE ban_operations
                /\ Returns("set_ip_status", ip, TRUE)
    /\ UNCHANGED <<engVars, mgrVars, calls, now>>

\* A sweep that lifts every ban, whatever its age.
_auto_unban_expired_ips_AnyAge ==
    LET expired == {i \in DOMAIN ip_cache : ip_cache[i].status = "banned"}
    IN  /\ ip_cache' = [i \in DOMAIN ip_cache |->
                           IF i \in expired
                           THEN [ip_cache[i] EXCEPT !.status = "active",
                                                    !.auto_unbanned_time = now]
                           ELSE ip_cache[i]]
        /\ _cache_dirty' = (_cache_dirty \/ expired # {})
        /\ Returns("_auto_unban_expired_ips", "", TRUE)
        /\ UNCHANGED <<engVars, mgrVars, calls, ban_operations, now>>

\* Lines 114-135
_auto_unban_expired_ips ==
    LET expired == {i \in DOMAIN ip_cache :
                       /\ ip_cache[i].status = "banned"
                       /\ ip_cache[i].banned_time > 0
                       /\ now - ip_cache[i].banned_time >= BanDuration}
    IN  /\ ip_cache' = [i \in DOMAIN ip_cache |->
                           IF i \in expired
                           THEN [ip_cache[i] EXCEPT !.status = "active",
                                                    !.auto_unbanned_time = now]
                           ELSE ip_cache[i]]
        /\ _cache_dirty' = (_cache_dirty \/ expired # {})
        /\ Returns("_auto_unban_expired_ips", "", TRUE)
        /\ UNCHANGED <<engVars, mgrVars, calls, ban_operations, now>>

\* A pruner without the seven-day tier: 50 requests or more, five days.
_cleanup_old_ips_NoTopTier ==
    LET should_remove(d) ==
            /\ d.status # "banned"
            /\ d.last_request_time # 0
            /\ LET inactive_time == now - d.last_request_time
               IN  IF d.total_requests >= 50 THEN inactive_time >= 5 * 86400
                   ELSE inactive_time >= 3 * 86400
        ips_to_remove == {i \in DOMAIN ip_cache : should_remove(ip_cache[i])}
    IN  /\ ip_cache' = [i \in DOMAIN ip_cache \ ips_to_remove |-> ip_cache[i]]
        /\ _cache_dirty' = (_cache_dirty \/ ips_to_remove # {})
        /\ Returns("_cleanup_old_ips", "", TRUE)
        /\ UNCHANGED <<engVars, mgrVars, calls, ban_operations, now>>

\* Lines 137-208
_cleanup_old_ips ==
    LET should_remove(d) ==
            /\ d.status # "banned"
            /\ d.last_request_time # 0
            /\ LET inactive_time == now - d.last_request_time
               IN  IF d.total_requests >= 300 THEN inactive_time >= 7 * 86400
                   ELSE IF d.total_requests >= 50 THEN inactive_time >= 5 * 86400
                   ELSE inactive_time >= 3 * 86400
        ips_to_remove == {i \in DOMAIN ip_cache : should_remove(ip_cache[i])}
    IN  /\ ip_cache' = [i \in DOMAIN ip_cache \ ips_to_remove |-> ip_cache[i]]
        /\ _cache_dirty' = (_cache_dirty \/ ips_to_remove # {})
        /\ Returns("_cleanup_old_ips", "", TRUE)
        /\ UNCHANGED <<engVars, mgrVars, calls, ban_operations, now>>

\* A save that clears the flag before it writes.
_save_ip_data_ClearsFirst(ok) ==
    /\ _cache_dirty
    /\ _cache_dirty' = FALSE
    /\ ip_stats' = IF ok THEN ip_cache ELSE ip_stats
    /\ Returns("_save_ip_data", "", ok)
    /\ UNCHANGED <<engVars, bootVars, calls, ip_cache, ban_operations, now>>

\* Lines 79-93: with the flag set, the save dumps the store, writes the file
\* and clears the flag, all under the lock.  `ok' tells whether the write
\* went through; if it raised (lines 92-93) the flag stays set and the file
\* is as it was (open failed) or cut to nothing (opened with "w", write
\* failed).  `ip_stats' is the content of ip_stats.toml as _load_ip_data
\* reads it back: the store that was dumped, and the empty store for a file
\* that is absent or cut.  last_call.ret tells whether the save went through.
_save_ip_data(ok) ==
    /\ _cache_dirty
    /\ IF ok
       THEN /\ ip_stats' = ip_cache
            /\ _cache_dirty' = FALSE
       ELSE /\ ip_stats' \in {ip_stats, EmptyStore}
            /\ UNCHANGED _cache_dirty
    /\ Returns("_save_ip_data", "", ok)
    /\ UNCHANGED <<engVars, bootVars, calls, ip_cache, ban_operations, now>>

\* Time passes between two calls.
Tick ==
    /\ \E t \in Clock : t > now /\ now' = t
    /\ last_call' = NoCall
    /\ UNCHANGED <<engVars, mgrVars, calls, ip_cache, _cache_dirty, ban_operations>>

CheckIP == \E ip \in IPs : check_ip_allowed(ip)
\* A request of a client that sends no User-Agent and names no model, or
\* one of a client that sends both.
Clients == {<<NoUserAgent, NoModel>>} \cup
           {<<UserAgents[1], model>> : model \in Models}

RecordRequest ==
    \E ip \in IPs, client \in Clients :
        /\ ip \in DOMAIN ip_cache => ip_cache[ip].total_requests < MaxRequests
        /\ record_request(ip, DefaultEndpoint, client[1], client[2])
SetStatus ==
    \E ip \in IPs, status \in IPStatuses \cup {"unknown"},
       rate_limit_seconds \in {None, 30},
       operator_ip \in Operators \cup {NoOperator} :
        set_ip_status(ip, status, rate_limit_seconds, operator_ip)

NextIP ==
    \/ CheckIP
    \/ RecordRequest
    \/ SetStatus
    \/ _auto_unban_expired_ips
    \/ _cleanup_old_ips
    \/ Tick

InitIP == EngineIdle /\ IPInit

\* The calls on the manager and its two sweeps.  The periodic save, which
\* reads and writes nothing that they read, is followed under SpecSave.
SpecIP == InitIP /\ [][NextIP]_vars

\* ---- IP manager: the store and its file -----------------------------------
\* The instants at which the manager is called when the file is followed:
\* the start, the end of a ban placed at the start, and three days after
\* the start, when the pruner removes a record.
SaveClock == {FirstInstant + d : d \in {0, 86400, 259200}}

TickSave ==
    /\ \E t \in SaveClock : t > now /\ now' = t
    /\ last_call' = NoCall
    /\ UNCHANGED <<engVars, mgrVars, calls, ip_cache, _cache_dirty,
                   ban_operations>>

\* Lines 95-102: _periodic_save wakes up and saves; the write goes through
\* or raises.
PeriodicSave == \E ok \in BOOLEAN : _save_ip_data(ok)

NextSave ==
    \/ CheckIP
    \/ RecordRequest
    \/ SetStatus
    \/ _auto_unban_expired_ips
    \/ _cleanup_old_ips
    \/ PeriodicSave
    \/ TickSave

SpecSave == InitIP /\ [][NextSave]_vars

\* ---- IP manager: an operator's bans on a loaded store --------------------
\* Lines 303-353: the record of an address after n requests on the current
\* day, the last of them at the instant t.
busy_record(n, t) ==
    [total_requests |-> n, today_requests |-> n,
     today_date |-> today_date_at(t), status |-> "active", banned_time |-> 0,
     last_request_time |-> t, rate_limit_seconds |-> 0,
     auto_unbanned_time |-> 0, user_agents |-> <<>>,
     models_used |-> EmptyStore,
     endpoints |-> [e \in {DefaultEndpoint} |-> n]]

\* Lines 64-77 and 487-492: the store and the ban-operation file as they are
\* loaded: the address is unknown or has 79 or 80 requests today, and the
\* file is absent or holds the ban another operator has just placed.
InitBan ==
    /\ EngineIdle
    /\ now = FirstInstant
    /\ ip_cache \in {EmptyStore} \cup
           {[i \in IPs |-> busy_record(n, FirstInstant)] :
                n \in {MinTodayToBan - 1, MinTodayToBan}}
    /\ _cache_dirty = FALSE
    /\ ban_operations \in
           {EmptyStore, [o \in {OtherOperator} |-> <<FirstInstant>>]}
    /\ last_call = NoCall
    /\ calls = NoCalls
    /\ ManagerReady
    /\ ip_stats = ip_cache

\* set_ip_status(ip, "banned", operator_ip=...), with or without an operator.
Ban ==
    \E ip \in IPs, operator_ip \in Operators \cup {NoOperator} :
        set_ip_status(ip, "banned", None, operator_ip)

\* Time passes between two calls.
TickBan ==
    /\ \E t \in BanClock : t > now /\ now' = t
    /\ last_call' = NoCall
    /\ UNCHANGED <<engVars, mgrVars, calls, ip_cache, _cache_dirty, ban_operations>>

NextBan ==
    \/ Ban
    \/ TickBan

SpecBan == InitBan /\ [][NextBan]_vars

\* ---- IP manager: status changes on a loaded store ------------------------
\* set_ip_status with any status, valid or not, with or without an operator,
\* at the instants of an operator's bans.
NextStatus ==
    \/ SetStatus
    \/ TickBan

SpecStatus == InitBan /\ [][NextStatus]_vars

\* ---- IP manager: concurrent bans of one operator -------------------------
\* Every call is set_ip_status(ip, "banned", operator_ip=O) for the one
\* address, which has 80 requests today.  The calls run as asyncio tasks: a
\* call holds the store lock from line 613 to line 653 and then records the
\* operation outside the lock, where the file read (line 543) and the file
\* write (line 553) are awaits at which the other calls run.
InitConc ==
    /\ EngineIdle
    /\ now = FirstInstant
    /\ ip_cache = [i \in IPs |-> busy_record(MinTodayToBan, FirstInstant)]
    /\ _cache_dirty = FALSE
    /\ ban_operations = EmptyStore
    /\ last_call = NoCall
    /\ calls = NoCalls
    /\ ManagerReady
    /\ ip_stats = ip_cache

\* Lines 613-653: the part of set_ip_status under the store lock.
BanLocked(c, ip, operator_ip) ==
    /\ calls[c].pc = "idle"
    /\ IF ip \in DOMAIN ip_cache
          /\ ip_cache[ip].today_requests < MinTodayToBan
       THEN /\ calls' = [calls EXCEPT ![c].pc = "done", ![c].ret = FALSE]
            /\ UNCHANGED <<ip_cache, _cache_dirty, ban_operations>>
       ELSE IF ~_check_ban_operation_limit(ban_operations, operator_ip).allowed
       THEN /\ calls' = [calls EXCEPT ![c].pc = "done", ![c].ret = FALSE]
            /\ ban_operations' =
                   _check_ban_operation_limit(ban_operations, operator_ip).file
            /\ UNCHANGED <<ip_cache, _cache_dirty>>
       ELSE LET d == IF ip \in DOMAIN ip_cache THEN ip_cache[ip]
                     ELSE new_status_record
            IN  /\ ip_cache' = Put(ip_cache, ip, apply_status(d, "banned", None))
                /\ _cache_dirty' = TRUE
                /\ ban_operations' =
                       _check_ban_operation_limit(ban_operations,
                                                  operator_ip).file
                /\ calls' = [calls EXCEPT ![c].pc = "record_load"]
    /\ UNCHANGED <<engVars, mgrVars, now, last_call>>

\* Line 543: _record_ban_operation loads the file.
BanRecordLoad(c) ==
    /\ calls[c].pc = "record_load"
    /\ calls' = [calls EXCEPT
                    ![c].pc = "record_save",
                    ![c].ban_data = _load_ban_operations(ban_operations).data]
    /\ ban_operations' = _load_ban_operations(ban_operations).file
    /\ UNCHANGED <<engVars, mgrVars, ip_cache, _cache_dirty, now, last_call>>

\* Lines 545-553 and 659: the timestamp is appended to the loaded data, the
\* data are written to the file, and set_ip_status returns (True, "").
BanRecordSave(c, operator_ip) ==
    /\ calls[c].pc = "record_save"
    /\ ban_operations' =
           Put(calls[c].ban_data, operator_ip,
               Append(operator_records(calls[c].ban_data, operator_ip), now))
    /\ calls' = [calls EXCEPT ![c].pc = "done", ![c].ret = TRUE,
                              ![c].ban_data = EmptyStore]
    /\ UNCHANGED <<engVars, mgrVars, ip_cache, _cache_dirty, now, last_call>>

NextConc ==
    \E c \in Calls, ip \in IPs, operator_ip \in Operators :
        \/ BanLocked(c, ip, operator_ip)
        \/ BanRecordLoad(c)
        \/ BanRecordSave(c, operator_ip)

SpecConc == InitConc /\ [][NextConc]_vars

\* ---- IP manager: concurrent calls and the store lock ---------------------
\* The calls run as asyncio tasks.  `_cache_lock' is the task that holds
\* self._cache_lock (None: free).  A call enters its `async with' block when
\* the lock is free and runs to its next await that suspends: the read of
\* the ban-operation file (line 628), the HTTP calls of _get_ip_location
\* (lines 309 and 639), and the file read and write of _record_ban_operation
\* (lines 543 and 553).  Each stretch between two such awaits is one action.
Tasks == 1..NumTasks
\* Line 650: the rate limit the operator gave the first address.
RateLimit == 30
\* The instants of the calls: around one and two rate limits after the last
\* request of the loaded record.
LockClock == {FirstInstant + d : d \in {0, 29, 30, 59, 60}}

\* Lines 64-77: the loaded store knows the first address, rate limited with
\* 80 requests today, and not the second one.
InitLock ==
    /\ EngineIdle
    /\ now = FirstInstant
    /\ ip_cache = [i \in {KnownIPs[1]} |->
                      [busy_record(MinTodayToBan, FirstInstant) EXCEPT
                          !.status = "rate_limited",
                          !.rate_limit_seconds = RateLimit]]
    /\ _cache_dirty = FALSE
    /\ ban_operations = EmptyStore
    /\ last_call = NoCall
    /\ calls = NoCalls
    /\ ManagerReady
    /\ ip_stats = ip_cache

Done(c, op, ip, ret) ==
    [calls EXCEPT ![c].pc = "done", ![c].ret = ret, ![c].op = op,
                  ![c].ip = ip, ![c].at = now]

\* Lines 227-256: check_ip_allowed, which has no await under the lock.
CheckLocked(c, ip) ==
    /\ calls[c].pc = "idle"
    /\ _cache_lock = None
    /\ IF ip \in DOMAIN ip_cache /\ ip_cache[ip].status = "banned"
       THEN IF ip_cache[ip].banned_time > 0
               /\ now - ip_cache[ip].banned_time >= BanDuration
            THEN /\ ip_cache' = [ip_cache EXCEPT ![ip].status = "active",
                                                 ![ip].auto_unbanned_time = now]
                 /\ _cache_dirty' = TRUE
                 /\ calls' = Done(c, "check_ip_allowed", ip, TRUE)
            ELSE /\ calls' = Done(c, "check_ip_allowed", ip, FALSE)
                 /\ UNCHANGED <<ip_cache, _cache_dirty>>
       ELSE /\ calls' = Done(c, "check_ip_allowed", ip,
                             ~(ip \in DOMAIN ip_cache
                               /\ rate_limited_now(ip_cache[ip])))
            /\ UNCHANGED <<ip_cache, _cache_dirty>>
    /\ UNCHANGED <<engVars, mgrVars, ban_operations, now, last_call>>

\* Lines 279-353 for a known address, and lines 279-309 for a new one: the
\* call is suspended in _get_ip_location with the lock held.
RecordLocked(c, ip, user_agent) ==
    /\ calls[c].pc = "idle"
    /\ _cache_lock = None
    /\ IF ip \in DOMAIN ip_cache
          /\ (ip_cache[ip].status = "banned" \/ rate_limited_now(ip_cache[ip]))
       THEN /\ calls' = Done(c, "record_request", ip, FALSE)
            /\ UNCHANGED <<ip_cache, _cache_dirty, _cache_lock>>
       ELSE IF ip \in DOMAIN ip_cache
       THEN /\ ip_cache' =
                   [ip_cache EXCEPT ![ip] =
                       update_stats(@, DefaultEndpoint, user_agent, NoModel)]
            /\ _cache_dirty' = TRUE
            /\ calls' = Done(c, "record_request", ip, TRUE)
            /\ UNCHANGED _cache_lock
       ELSE /\ _cache_lock' = c
            /\ calls' = [calls EXCEPT ![c].pc = "locating",
                                      ![c].op = "record_request",
                                      ![c].ip = ip]
            /\ UNCHANGED <<ip_cache, _cache_dirty>>
    /\ UNCHANGED <<engVars, _initialized, _ip_manager_instance, started,
                   ip_stats, ban_operations, now, last_call>>

\* Lines 309-353: the location is back; the record is created and counted,
\* and the lock is released.
RecordLocated(c, user_agent) ==
    /\ calls[c].pc = "locating"
    /\ calls[c].op = "record_request"
    /\ ip_cache' =
           Put(ip_cache, calls[c].ip,
               update_stats(new_record(today_date_at(now)), DefaultEndpoint,
                            user_agent, NoModel))
    /\ _cache_dirty' = TRUE
    /\ _cache_lock' = None
    /\ calls' = Done(c, "record_request", calls[c].ip, TRUE)
    /\ UNCHANGED <<engVars, _initialized, _ip_manager_instance, started,
                   ip_stats, ban_operations, now, last_call>>

\* Lines 613-628 of set_ip_status(ip, "banned", operator_ip=...): the
\* user-protection guard, then the call is suspended in
\* _check_ban_operation_limit with the lock held.
BanEnter(c, ip) ==
    /\ calls[c].pc = "idle"
    /\ _cache_lock = None
    /\ IF ip \in DOMAIN ip_cache
          /\ ip_cache[ip].today_requests < MinTodayToBan
       THEN /\ calls' = Done(c, "set_ip_status", ip, FALSE)
            /\ UNCHANGED _cache_lock
       ELSE /\ _cache_lock' = c
            /\ calls' = [calls EXCEPT ![c].pc = "limit_check",
                                      ![c].op = "set_ip_status",
                                      ![c].ip = ip]
    /\ UNCHANGED <<engVars, _initialized, _ip_manager_instance, started,
                   ip_stats, ip_cache, _cache_dirty, ban_operations, now,
                   last_call>>

\* Lines 628-653: the throttle has read the file.  A throttled call returns;
\* a ban of a new address is suspended in _get_ip_location (line 639), still
\* with the lock; a ban of a known address is applied and the lock released.
BanLimit(c, operator_ip) ==
    /\ calls[c].pc = "limit_check"
    /\ ban_operations' =
           _check_ban_operation_limit(ban_operations, operator_ip).file
    /\ IF ~_check_ban_operation_limit(ban_operations, operator_ip).allowed
       THEN /\ calls' = Done(c, "set_ip_status", calls[c].ip, FALSE)
            /\ _cache_lock' = None
            /\ UNCHANGED <<ip_cache, _cache_dirty>>
       ELSE IF calls[c].ip \notin DOMAIN ip_cache
       THEN /\ calls' = [calls EXCEPT ![c].pc = "locating"]
            /\ UNCHANGED <<ip_cache, _cache_dirty, _cache_lock>>
       ELSE /\ ip_cache' = [ip_cache EXCEPT ![calls[c].ip] =
                               apply_status(@, "banned", None)]
            /\ _cache_dirty' = TRUE
            /\ _cache_lock' = None
            /\ calls' = [calls EXCEPT ![c].pc = "record_load", ![c].at = now]
    /\ UNCHANGED <<engVars, _initialized, _ip_manager_instance, started,
                   ip_stats, now, last_call>>

\* Lines 635-653: the location is back; the record is created and banned,
\* and the lock is released.
BanLocated(c) ==
    /\ calls[c].pc = "locating"
    /\ calls[c].op = "set_ip_status"
    /\ ip_cache' = Put(ip_cache, calls[c].ip,
                       apply_status(new_status_record, "banned", None))
    /\ _cache_dirty' = TRUE
    /\ _cache_lock' = None
    /\ calls' = [calls EXCEPT ![c].pc = "record_load", ![c].at = now]
    /\ UNCHANGED <<engVars, _initialized, _ip_manager_instance, started,
                   ip_stats, ban_operations, now, last_call>>

\* Time passes while calls are suspended or between calls.
TickLock ==
    /\ \E t \in LockClock : t > now /\ now' = t
    /\ UNCHANGED <<engVars, mgrVars, calls, ip_cache, _cache_dirty,
                   ban_operations, last_call>>

NextLock ==
    \/ \E c \in Tasks, ip \in SweepIPs :
           \/ CheckLocked(c, ip)
           \/ RecordLocked(c, ip, UserAgents[1])
           \/ BanEnter(c, ip)
    \/ \E c \in Tasks :
           \/ RecordLocated(c, UserAgents[1])
           \/ BanLocated(c)
    \/ \E c \in Tasks, operator_ip \in Operators :
           \/ BanLimit(c, operator_ip)
           \/ BanRecordLoad(c)
           \/ BanRecordSave(c, operator_ip)
    \/ TickLock

SpecLock == InitLock /\ [][NextLock]_vars

\* ---- IP manager: the periodic sweeps on a loaded store -------------------
Day == 86400
\* The instant of the sweep: a week after the first instant.
SweepInstant == FirstInstant + 7 * Day

\* now - last_request_time of the loaded records: around the three
\* thresholds of the pruner.
InactiveTimes == {3 * Day - 1, 3 * Day, 5 * Day - 1, 5 * Day, 6 * Day,
                  7 * Day - 1, 7 * Day}
\* total_requests of the loaded records: around the two tier limits.
TotalCounts == {49, 50, 299, 300}
\* now - banned_time of the loaded bans.
BanAges == {BanDuration - 1, BanDuration}

\* Records the store can hold at the sweep: an address that made requests
\* and is active or rate limited (lines 303-331, 642-650); an address that
\* only ever was the target of set_ip_status (lines 635-650), which has no
\* last_request_time; an address banned on a day with 80 requests, after its
\* last request (lines 618-647).
SweepRecords ==
    {[busy_record(1, SweepInstant - inactive) EXCEPT
          !.total_requests = total, !.status = status] :
        total \in TotalCounts, inactive \in InactiveTimes,
        status \in {"active", "rate_limited"}}
    \cup {[new_status_record EXCEPT !.status = status] :
              status \in {"active", "rate_limited"}}
    \cup {[new_status_record EXCEPT
               !.status = "banned", !.banned_time = SweepInstant - age] :
              age \in BanAges}
    \cup {[busy_record(MinTodayToBan, SweepInstant - inactive) EXCEPT
               !.total_requests = total, !.status = "banned",
               !.banned_time = SweepInstant - age] :
              total \in {299, 300}, inactive \in InactiveTimes,
              age \in BanAges}

\* Lines 64-77: the store as it stands when _periodic_unban_check wakes up.
InitSweep ==
    /\ EngineIdle
    /\ now = SweepInstant
    /\ \E known \in SUBSET SweepIPs : ip_cache \in [known -> SweepRecords]
    /\ _cache_dirty = FALSE
    /\ ban_operations = EmptyStore
    /\ last_call = NoCall
    /\ calls = NoCalls
    /\ ManagerReady
    /\ ip_stats = ip_cache

\* Lines 104-112: the two sweeps of _periodic_unban_check.
NextSweep ==
    \/ _auto_unban_expired_ips
    \/ _cleanup_old_ips

SpecSweep == InitSweep /\ [][NextSweep]_vars

\* ---- IP manager: admission checks on a loaded store ----------------------
\* Lines 215-256: check_ip_allowed for the addresses of the store and for an
\* address the store does not know, at the instant of the loaded records.
CheckKnown ==
    \E k \in DOMAIN KnownIPs : check_ip_allowed(KnownIPs[k])

NextCheck == CheckKnown

SpecCheck == InitSweep /\ [][NextCheck]_vars

\* ---- IP manager: the first callers ----------------------------------------
\* The process starts with no global instance (line 769) and an
\* ip_stats.toml left by an earlier run.  Concurrent tasks call
\* get_ip_manager(), or initialize() on the global instance once it exists.
\* initialize() is suspended in the read of the file (lines 68-69, a read in
\* the thread pool of aiofiles), between its test of _initialized (line 38)
\* and the assignments of lines 70 and 52-57; a call at "loading" is there.
\* `started' is the log of what the initialize() calls did.  For a
\* get_ip_manager() call, `ret' tells whether the handle it returned passes
\* _ensure_initialized.
InitBoot ==
    /\ EngineIdle
    /\ now = FirstInstant
    /\ ip_cache = EmptyStore
    /\ _cache_dirty = FALSE
    /\ ban_operations = EmptyStore
    /\ last_call = NoCall
    /\ calls = [c \in Calls |-> IdleCall]
    /\ _cache_lock = None
    /\ _initialized = FALSE
    /\ _ip_manager_instance = None
    /\ started = <<>>
    /\ ip_stats \in [IPs -> SweepRecords]

\* Lines 210-213: the test that raises RuntimeError when it is false.
_ensure_initialized == _initialized

\* Lines 36-49: initialize() up to the read of the file; it returns at once
\* when the manager is initialized.
initialize(c, op) ==
    IF _initialized
    THEN calls' = Done(c, op, "", _ensure_initialized)
    ELSE calls' = [calls EXCEPT ![c].pc = "loading", ![c].op = op]

\* Lines 772-779: the first caller makes the instance and initializes it;
\* a caller that finds an instance returns it.
get_ip_manager(c) ==
    /\ calls[c].pc = "idle"
    /\ IF _ip_manager_instance = None
       THEN /\ _ip_manager_instance' = TheManager
            /\ initialize(c, "get_ip_manager")
       ELSE /\ calls' = Done(c, "get_ip_manager", "", _ensure_initialized)
            /\ UNCHANGED _ip_manager_instance
    /\ UNCHANGED <<engVars, _cache_lock, _initialized, started, ip_stats,
                   ip_cache, _cache_dirty, ban_operations, now, last_call>>

\* A direct call of initialize() on the global instance.
Initialize(c) ==
    /\ calls[c].pc = "idle"
    /\ _ip_manager_instance = TheManager
    /\ initialize(c, "initialize")
    /\ UNCHANGED <<engVars, mgrVars, ip_cache, _cache_dirty, ban_operations,
                   now, last_call>>

\* Lines 69-58: the read is back; the store is replaced by the loaded one,
\* the two periodic tasks are created and the flag is set; the call returns.
Loaded(c) ==
    /\ calls[c].pc = "loading"
    /\ ip_cache' = ip_stats
    /\ started' = started \o Started
    /\ _initialized' = TRUE
    /\ calls' = Done(c, calls[c].op, "", TRUE)
    /\ UNCHANGED <<engVars, _cache_lock, _ip_manager_instance, ip_stats,
                   _cache_dirty, ban_operations, now, last_call>>

NextBoot ==
    \E c \in Tasks :
        \/ get_ip_manager(c)
        \/ Initialize(c)
        \/ Loaded(c)

SpecBoot == InitBoot /\ [][NextBoot]_vars

\* ---- IP manager: the user agents of an address --------------------------
\* The user agents of the requests that are recorded.
SentUserAgents ==
    {NoUserAgent} \cup {UserAgents[k] : k \in {1, 2, 10, 11, 12}}

\* Lines 64-77 and 333-339: the store as loaded: empty, or with the record
\* of an address that sent ten requests today with the first k user agents.
InitUA ==
    /\ EngineIdle
    /\ now = FirstInstant
    /\ ip_cache \in {EmptyStore} \cup
           {[i \in IPs |->
                [busy_record(MaxUserAgents, FirstInstant) EXCEPT
                    !.user_agents = SubSeq(UserAgents, 1, k)]] :
                k \in 0..MaxUserAgents}
    /\ _cache_dirty = FALSE
    /\ ban_operations = EmptyStore
    /\ last_call = NoCall
    /\ calls = NoCalls
    /\ ManagerReady
    /\ ip_stats = ip_cache

RecordUA ==
    \E ip \in IPs, user_agent \in SentUserAgents :
        /\ ip \in DOMAIN ip_cache =>
               ip_cache[ip].total_requests < MaxUserAgents + MaxUARequests
        /\ record_request(ip, DefaultEndpoint, user_agent, NoModel)

NextUA == RecordUA

SpecUA == InitUA /\ [][NextUA]_vars

\* ---- IP manager: the ranking ---------------------------------------------
\* Lines 725-733: the item of an address (location, first_seen and last_seen
\* are not part of the record here).
ranking_item(ip, d) ==
    [ip |-> ip, today_requests |-> d.today_requests,
     total_requests |-> d.total_requests, status |-> d.status]

\* Lines 719-733: the items of the store in the order of its keys, without
\* the banned addresses unless include_banned.
RECURSIVE filtered_ips(_, _, _)
filtered_ips(cache, include_banned, k) ==
    IF k > Len(KnownIPs) THEN <<>>
    ELSE LET ip == KnownIPs[k]
             rest == filtered_ips(cache, include_banned, k + 1)
         IN  IF ip \notin DOMAIN cache THEN rest
             ELSE IF ~include_banned /\ cache[ip].status = "banned" THEN rest
             ELSE <<ranking_item(ip, cache[ip])>> \o rest

\* A key that is the lifetime count whatever the ranking asked for.
key_of_TotalOnly(item, sort_key) == item.total_requests

\* Line 739: key=lambda x: x[sort_key]
key_of(item, sort_key) ==
    IF sort_key = "today_requests" THEN item.today_requests
    ELSE item.total_requests

\* Lines 737-741: sorted(..., reverse=True), a stable sort into descending
\* order: the last item goes behind the items of the sorted rest whose key
\* is not smaller.
RECURSIVE sorted(_, _)
sorted(items, sort_key) ==
    IF items = <<>> THEN <<>>
    ELSE LET rest == sorted(SubSeq(items, 1, Len(items) - 1), sort_key)
             x == items[Len(items)]
             n == Cardinality({k \in 1..Len(rest) :
                      key_of(rest[k], sort_key) >= key_of(x, sort_key)})
         IN  SubSeq(rest, 1, n) \o <<x>> \o SubSeq(rest, n + 1, Len(rest))

Min(a, b) == IF a <= b THEN a ELSE b
Max(a, b) == IF a >= b THEN a ELSE b

\* Lines 715-765, for page_size >= 1.
ip_ranking(cache, rank_by, page, page_size, include_banned) ==
    LET sort_key == IF rank_by = "today" THEN "today_requests"
                    ELSE "total_requests"
        sorted_ips == sorted(filtered_ips(cache, include_banned, 1), sort_key)
        total == Len(sorted_ips)
        total_pages == (total + page_size - 1) \div page_size
        page1 == Max(1, Min(page, IF total_pages > 0 THEN total_pages ELSE 1))
        start_index == (page1 - 1) * page_size
        end_index == start_index + page_size
    IN  [items |-> SubSeq(sorted_ips, start_index + 1, Min(end_index, total)),
         page |-> page1, page_size |-> page_size, total |-> total,
         total_pages |-> total_pages, has_next |-> page1 < total_pages,
         has_prev |-> page1 > 1]

\* Lines 686-765
get_ip_ranking(rank_by, page, page_size, include_banned) ==
    /\ Returns("get_ip_ranking", "",
               ip_ranking(ip_cache, rank_by, page, page_size, include_banned))
    /\ UNCHANGED <<engVars, mgrVars, calls, ip_cache, _cache_dirty, ban_operations, now>>

\* (today_requests, total_requests) of the loaded records: the two orders
\* differ, and two addresses with the same counts tie.
RankCounts == {<<80, 300>>, <<90, 200>>}

\* Lines 64-77: the store as loaded: up to three addresses, each active or
\* banned (banned on a day with at least 80 requests).
RankRecords ==
    {[busy_record(c[1], FirstInstant) EXCEPT !.total_requests = c[2]] :
        c \in RankCounts}
    \cup {[busy_record(c[1], FirstInstant) EXCEPT
               !.total_requests = c[2], !.status = "banned",
               !.banned_time = FirstInstant] : c \in RankCounts}

InitRank ==
    /\ EngineIdle
    /\ now = FirstInstant
    /\ \E known \in SUBSET {KnownIPs[k] : k \in DOMAIN KnownIPs} :
           ip_cache \in [known -> RankRecords]
    /\ _cache_dirty = FALSE
    /\ ban_operations = EmptyStore
    /\ last_call = NoCall
    /\ calls = NoCalls
    /\ ManagerReady
    /\ ip_stats = ip_cache

RankBys == {"today", "total"}
Pages == (0 - 1)..MaxPage
PageSizes == 1..MaxPageSize

GetRanking ==
    \E rank_by \in RankBys, page \in Pages, page_size \in PageSizes,
       include_banned \in BOOLEAN :
        get_ip_ranking(rank_by, page, page_size, include_banned)

NextRank == GetRanking

SpecRank == InitRank /\ [][NextRank]_vars

\* ---- reading the trace ---------------------------------------------------
TraceIdx == 1..Len(trace)
IsSend(k) == trace[k].op = "send"
SendIdx == {k \in TraceIdx : IsSend(k)}
\* The attempt index of the send at position k.
AttemptAt(k) == Cardinality({j \in 1..(k - 1) : IsSend(j)})
LaterSends(k) == {j \in SendIdx : j > k}
\* The last position that belongs to the attempt sent at position k.
EndOf(k) ==
    IF LaterSends(k) = {} THEN Len(trace)
    ELSE (CHOOSE j \in LaterSends(k) : \A i \in LaterSends(k) : j <= i) - 1
LastSend == CHOOSE k \in SendIdx : LaterSends(k) = {}
Is5xx(s) == 500 <= s /\ s < 600
FailCount(c, code) ==
    Cardinality({k \in TraceIdx : trace[k] = Entry("record", c, FALSE, code)})
FailTotal(c) ==
    Cardinality({k \in TraceIdx : trace[k].op = "record" /\ trace[k].cred = c
                                   /\ ~trace[k].ok})
SuccessCount(c) ==
    Cardinality({k \in TraceIdx : trace[k] = Entry("record", c, TRUE, 0)})
DataLineRead == \E i \in 1..Len(lines) : lines[i] # "nodata"

\* ---- C1 ------------------------------------------------------------------
\* C1: whatever the upstream answers, a request makes at most
\* max_retries + 1 upstream attempts, every retry of every kind takes the
\* next attempt index, the loop never runs out without returning, and a
\* response exists exactly when the request has returned.
C1_AttemptsBounded ==
    /\ Cardinality(SendIdx) <= max_retries + 1
    /\ pc = "loop" => attempt <= max_retries /\ Cardinality(SendIdx) = attempt
    /\ pc \in {"stream", "done"} /\ SendIdx # {}
           => Cardinality(SendIdx) = attempt + 1
    /\ pc \in {"start", "loop"} <=> response = NoResponse

\* A request that used all its attempts on three different kinds of outcome.
C1_Witness ==
    /\ pc = "done" /\ max_retries = 2
    /\ Cardinality(SendIdx) = 3
    /\ Cardinality({trace[k].code : k \in SendIdx}) = 3

\* ---- C2 ------------------------------------------------------------------
\* C2: a 429 is recorded once as a failure of the credential that produced
\* it; with 429-retry enabled and retries left the pool is rotated and the
\* next attempt is sent with the credential the rotation selected; otherwise
\* the request ends there with status and code 429.  A 200 is recorded as
\* one success of the credential that produced it: at once on the unary
\* path, and on the streaming path when the stream's first data line is read
\* (nothing is recorded for the 200 before that).
C2_On429RotateOrFail ==
    /\ \A k \in SendIdx : trace[k].code = 429 =>
        /\ k + 1 <= Len(trace)
        /\ trace[k + 1] = Entry("record", trace[k].cred, FALSE, 429)
        /\ IF retry_429_enabled /\ AttemptAt(k) < max_retries
           THEN /\ k + 2 <= Len(trace)
                /\ trace[k + 2].op = "rotate"
                /\ IF k + 2 = Len(trace)
                   THEN /\ pc = "loop"
                        /\ attempt = AttemptAt(k) + 1
                        /\ current_file = trace[k + 2].cred
                   ELSE /\ IsSend(k + 3)
                        /\ trace[k + 3].cred = trace[k + 2].cred
           ELSE /\ k + 1 = Len(trace)
                /\ pc = "done"
                /\ response.status = 429 /\ response.code = 429
    /\ \A k \in SendIdx : trace[k].code = 200 =>
           IF is_streaming /\ ~DataLineRead
           THEN Len(trace) = k
           ELSE /\ Len(trace) = k + 1
                /\ trace[k + 1] = Entry("record", trace[k].cred, TRUE, 0)

\* Scenario S1: a 429 on one credential, then a recorded 200 on another.
C2_Witness ==
    /\ pc = "done"
    /\ \E k \in SendIdx :
          /\ trace[k].code = 429
          /\ k + 3 <= Len(trace)
          /\ IsSend(k + 3) /\ trace[k + 3].code = 200
          /\ trace[k + 3].cred # trace[k].cred
          /\ FailCount(trace[k].cred, 429) = 1
          /\ SuccessCount(trace[k + 3].cred) = 1

\* ---- C3 ------------------------------------------------------------------
\* C3 (as stated): when the bound credential is disabled and the rotation
\* that follows finds no active credential, no further upstream call is
\* sent, and the response of the request is the error whose code is the
\* status that caused the disabling.
C3_NoCallAfterExhaustion ==
    \A k \in TraceIdx :
        (k > 2 /\ trace[k].op = "rotate" /\ ~trace[k].ok
               /\ trace[k - 1].op = "disable") =>
            /\ LaterSends(k) = {}
            /\ pc # "loop" => response.code = trace[LastSend].code

\* ---- C4 ------------------------------------------------------------------
\* C4 (as stated): once a refresh has succeeded in a request, no further
\* refresh is attempted in that request; and a failed refresh is followed at
\* once by disabling the credential and rotating.
C4_RefreshAtMostOnce ==
    \A k \in TraceIdx : trace[k].op = "refresh" =>
        /\ \A j \in 1..(k - 1) : ~(trace[j].op = "refresh" /\ trace[j].ok)
        /\ ~trace[k].ok =>
               /\ k + 2 <= Len(trace)
               /\ trace[k + 1] = Entry("disable", trace[k - 1].cred, TRUE, 0)
               /\ trace[k + 2].op = "rotate"

\* ---- C5 ------------------------------------------------------------------
\* What the client of a 200 event stream is sent for the lines read.
RECURSIVE ExpectedFrames(_)
ExpectedFrames(ls) ==
    IF ls = <<>> THEN <<>>
    ELSE LET rest == ExpectedFrames(Tail(ls))
         IN  CASE Head(ls) = "wrapped" -> <<"inner">> \o rest
               [] Head(ls) = "bare" -> <<"bare">> \o rest
               [] OTHER -> rest

\* Scenario S2: the request's upstream answers are 401, then, after a
\* successful refresh, 200 with a {"response": ...} body (unary) or with
\* {"response": ...} data lines (streaming).
C5_Scenario ==
    /\ Cardinality(SendIdx) = 2
    /\ trace[1].op = "send" /\ trace[1].code = 401
    /\ trace[3] = Entry("refresh", trace[1].cred, TRUE, 0)
    /\ trace[LastSend].code = 200
    /\ IF is_streaming
       THEN lines # <<>> /\ \A i \in 1..Len(lines) : lines[i] = "wrapped"
       ELSE body = "wrapped"

\* C5: in scenario S2 the credential is not disabled, the retry is sent with
\* the same credential, the client receives the unwrapped body with status
\* 200, and exactly one failure (401) and one success are recorded for it.
C5_RefreshThenSuccess ==
    C5_Scenario =>
        LET c == trace[1].cred
        IN  /\ LastSend = 4 /\ trace[4].cred = c
            /\ c \notin disabled
            /\ \A k \in TraceIdx : trace[k].op # "disable"
            /\ response.status = 200
            /\ IF is_streaming
               THEN SubSeq(frames, 1, Len(lines)) = ExpectedFrames(lines)
                    /\ ExpectedFrames(lines) = [i \in 1..Len(lines) |-> "inner"]
               ELSE response.content = "inner"
            /\ FailCount(c, 401) = 1 /\ FailTotal(c) = 1
            /\ SuccessCount(c) = 1

C5_Witness == C5_Scenario /\ pc = "done" /\ is_streaming

\* ---- C6 ------------------------------------------------------------------
\* The step is an attempt answered with a non-auth, non-5xx status of the
\* auto-ban set while retries are left and another credential is active.
C6_Case ==
    /\ pc = "loop" /\ attempt < max_retries
    /\ Len(trace') > Len(trace)
    /\ trace'[Len(trace) + 1].op = "send"
    /\ LET s == trace'[Len(trace) + 1].code
       IN  s \notin AuthStatuses \cup {0, 200, 429} /\ ~Is5xx(s)
           /\ _check_should_auto_ban(s)
    /\ Creds \ (disabled \cup {current_file}) # {}

\* C6: in that case the engine records the failure, disables the credential
\* that produced the status and rotates to a different, active credential
\* with which the retry will be sent; and no attempt of a request is sent
\* with a credential the request disabled while another one was active, so
\* a 200 that ends the request comes from another credential.
C6_Step ==
    C6_Case =>
        LET s == trace'[Len(trace) + 1].code
        IN  /\ trace' = trace \o << Entry("send", current_file, FALSE, s),
                                    Entry("record", current_file, FALSE, s),
                                    Entry("disable", current_file, TRUE, 0),
                                    Entry("rotate", current_file', TRUE, 0) >>
            /\ disabled' = disabled \cup {current_file}
            /\ current_file' \notin disabled'
            /\ cursor' = current_file'
            /\ pc' = "loop" /\ attempt' = attempt + 1

C6_NotReused ==
    \A j \in TraceIdx :
        (trace[j].op = "disable" /\ trace[j + 1].ok) =>
            \A k \in LaterSends(j) :
                /\ trace[k].cred # trace[j].cred
                /\ trace[k].code = 200 /\ ~(is_streaming /\ ~DataLineRead)
                      => SuccessCount(trace[k].cred) = 1
                         /\ SuccessCount(trace[j].cred) = 0

C6_BanAndRotate == [][C6_Step]_vars /\ []C6_NotReused

\* Scenario S3: 403 on one credential, 200 delivered from another.
C6_Witness ==
    /\ pc = "done" /\ response.status = 200
    /\ \E j \in TraceIdx :
          /\ trace[j].op = "disable" /\ trace[j + 1].ok
          /\ trace[j - 1] = Entry("record", trace[j].cred, FALSE, 403)
          /\ trace[LastSend].code = 200
          /\ trace[LastSend].cred # trace[j].cred

\* ---- C7 ------------------------------------------------------------------
\* C7 (as stated): an attempt answered with a 5xx is followed by no disable
\* and no rotation; with retries left the next attempt uses the same
\* credential, and without retries left the request fails with that status.
C7_5xxKeepsCredential ==
    \A k \in SendIdx : Is5xx(trace[k].code) =>
        /\ \A j \in (k + 1)..EndOf(k) : trace[j].op \notin {"disable", "rotate"}
        /\ IF AttemptAt(k) < max_retries
           THEN IF LaterSends(k) = {}
                THEN pc = "loop" /\ current_file = trace[k].cred
                ELSE trace[EndOf(k) + 1].cred = trace[k].cred
           ELSE /\ pc = "done"
                /\ response.status = trace[k].code
                /\ response.code = trace[k].code

\* ---- C8 ------------------------------------------------------------------
\* C8: the entries of one attempt (from its send up to the next send)
\* contain at most one call of record_api_call_result.
C8_RecordAtMostOnce ==
    \A k \in SendIdx :
        Cardinality({j \in (k + 1)..EndOf(k) : trace[j].op = "record"}) <= 1

\* A stream whose success was recorded on its data line, in a request whose
\* earlier attempt was recorded as a failure.
C8_Witness ==
    /\ pc = "done" /\ is_streaming /\ success_recorded
    /\ DataLineRead
    /\ \E k \in TraceIdx : trace[k].op = "record" /\ ~trace[k].ok
    /\ trace[Len(trace)] = Entry("record", current_file, TRUE, 0)

\* ---- C9 ------------------------------------------------------------------
\* C9: an attempt answered with a status that is not 200, 429 or 5xx and
\* that does not trigger auto-ban is the last one: the request has ended,
\* the only thing done after the send is one record of a failure with that
\* status on the bound credential (no refresh, disable or rotation), and the
\* response is an error object with that status and code.
C9_OtherStatusFailsOnce ==
    \A k \in SendIdx :
        LET s == trace[k].code
        IN  (s \notin {0, 200, 429} /\ ~Is5xx(s) /\ ~_check_should_auto_ban(s)) =>
                /\ trace = SubSeq(trace, 1, k)
                             \o << Entry("record", trace[k].cred, FALSE, s) >>
                /\ FailCount(trace[k].cred, s) = 1
                /\ pc = "done"
                /\ response.status = s /\ response.code = s
                /\ response.content = "error"
                /\ current_file = trace[k].cred

\* A 401 outside the auto-ban set ends a request that had retries left.
C9_Witness ==
    /\ pc = "done" /\ response.code = 401 /\ attempt < max_retries
    /\ auto_ban_enabled /\ 401 \notin auto_ban_error_codes
    /\ trace[LastSend].code = 401

\* ---- C10 -----------------------------------------------------------------
\* The step is an attempt whose HTTP call raised.
C10_Case ==
    /\ pc = "loop"
    /\ Len(trace') > Len(trace)
    /\ trace'[Len(trace) + 1] = Entry("send", current_file, FALSE, 0)

\* C10: such a step calls nothing on the pool and leaves pool and binding
\* as they were; with retries left the loop goes on with the next attempt
\* index, otherwise the request returns the JSON error object with code 500.
C10_Step ==
    C10_Case =>
        /\ trace' = Append(trace, Entry("send", current_file, FALSE, 0))
        /\ UNCHANGED <<disabled, cursor, current_file>>
        /\ IF attempt < max_retries
           THEN pc' = "loop" /\ attempt' = attempt + 1 /\ response' = NoResponse
           ELSE pc' = "done" /\ response' = _create_error_response(500)

C10_ExceptionKeepsCredential == [][C10_Step]_vars

\* A request that retried after an exception with the same credential and
\* failed with 500 on a last exception.
C10_Witness ==
    /\ pc = "done" /\ response = _create_error_response(500)
    /\ Len(trace) >= 2
    /\ trace[Len(trace)] = Entry("send", current_file, FALSE, 0)
    /\ trace[Len(trace) - 1] = Entry("send", current_file, FALSE, 0)

\* ---- C11 -----------------------------------------------------------------
\* C11 (as stated): a request that failed after an upstream attempt returns
\* one error object; its code is the status the last attempt was answered
\* with (an attempt that raised has no status); and for a streaming request
\* the object is the first and only data frame of an event stream, also when
\* it is the error frame of a 200 stream whose read raised.
C11_OneErrorObject ==
    (pc = "done" /\ SendIdx # {}) =>
        /\ response.status # 200 =>
              /\ response.content = "error"
              /\ trace[LastSend].code # 0 =>
                     /\ response.code = trace[LastSend].code
                     /\ response.status = trace[LastSend].code
              /\ is_streaming => response.media = "sse"
        /\ (response.status = 200 /\ is_streaming /\ ended = "raise") =>
              frames = <<"error500">>

\* ---- C12 -----------------------------------------------------------------
\* Lines 277-449: what the streaming path does with the pool when attempt
\* `att' is answered with a status other than 200, and whether it retries.
streaming_policy(e, att, status, refresh_success) ==
    LET e1 == record_if_bound(e, FALSE, status)
    IN  IF status = 429
        THEN IF retry_429_enabled /\ att < max_retries
             THEN [eng |-> _get_next_credential(force_rotate_credential(e1)),
                   retry |-> TRUE]
             ELSE [eng |-> e1, retry |-> FALSE]
        ELSE IF Is5xx(status) /\ att < max_retries
        THEN [eng |-> e1, retry |-> TRUE]
        ELSE IF _check_should_auto_ban(status) /\ att < max_retries
        THEN [eng |-> IF status \in AuthStatuses
                      THEN LET e2 == force_refresh_current_token(
                                         e1, refresh_success)
                           IN  IF refresh_success
                               THEN _get_next_credential(e2)
                               ELSE _get_next_credential(
                                        _handle_auto_ban(e2, status))
                      ELSE _get_next_credential(_handle_auto_ban(e1, status)),
              retry |-> TRUE]
        ELSE [eng |-> _handle_api_error(e1, status), retry |-> FALSE]

\* The step is an attempt of a unary request answered with a status other
\* than 200.
C12_Case ==
    /\ pc = "loop" /\ ~is_streaming
    /\ Len(trace') > Len(trace)
    /\ trace'[Len(trace) + 1].op = "send"
    /\ trace'[Len(trace) + 1].code \notin {0, 200}

\* C12 (as stated): from the same configuration, pool state and attempt
\* index, and for the same upstream status, the unary path makes the pool
\* calls the streaming path makes (record, refresh, disable, rotate, with
\* the same arguments, in the same order), retries when it retries, and
\* otherwise ends with the same status.
C12_Step ==
    C12_Case =>
        LET status == trace'[Len(trace) + 1].code
        IN  \E refresh_success \in BOOLEAN :
              LET o == streaming_policy(upstream(Eng, status), attempt,
                                        status, refresh_success)
              IN  /\ trace' = o.eng.trace
                  /\ disabled' = o.eng.disabled
                  /\ cursor' = o.eng.cursor
                  /\ current_file' = o.eng.current_file
                  /\ IF o.retry
                     THEN pc' = "loop" /\ attempt' = attempt + 1
                     ELSE pc' = "done" /\ response'.status = status

C12_UnaryFollowsStreaming == [][C12_Step]_vars

\* ---- reading the resource log --------------------------------------------
CountOf(r, ev) == Cardinality({i \in 1..Len(r) : r[i] = ev})
OpenClients(r) == CountOf(r, "client") - CountOf(r, "aclose")
OpenStreams(r) == CountOf(r, "aenter") - CountOf(r, "aexit")

\* ---- C13 -----------------------------------------------------------------
\* C13: from the hand-over of a 200 stream to the generator, the stream
\* context and the client stay open while the generator runs, and every way
\* it ends (stream exhausted, a read or a frame raising, the client going
\* away, after any number of frames) calls __aexit__ on the stream context
\* and then aclose on the client, each exactly once.
C13_GeneratorReleases ==
    /\ pc = "stream" => /\ ended = "no"
                        /\ resources = <<"client", "aenter">>
    /\ pc = "done" => /\ ended # "no"
                      /\ resources = <<"client", "aenter", "aexit", "aclose">>

\* Scenario S4: the client goes away after two frames were forwarded.
C13_Witness ==
    /\ pc = "done" /\ ended = "cancel" /\ Len(frames) = 2
    /\ OpenClients(resources) = 0 /\ OpenStreams(resources) = 0

\* ---- C14 -----------------------------------------------------------------
\* One pass over the resource log: after every event at most one client and
\* at most one stream is open, and no stream is open without its client.
RECURSIVE C14_AtMostOneOpen(_, _, _, _)
C14_AtMostOneOpen(r, i, clients, streams) ==
    IF i > Len(r) THEN TRUE
    ELSE LET c == clients + (IF r[i] = "client" THEN 1
                             ELSE IF r[i] = "aclose" THEN -1 ELSE 0)
             s == streams + (IF r[i] = "aenter" THEN 1
                             ELSE IF r[i] = "aexit" THEN -1 ELSE 0)
         IN  /\ c \in {0, 1}
             /\ s \in {0, 1}
             /\ s <= c
             /\ C14_AtMostOneOpen(r, i + 1, c, s)

\* C14: in a streaming request every attempt answered with a status other
\* than 200 has exited its stream context and then closed its client when
\* the attempt is over: at no point of the log more than one client or more
\* than one stream is open, every __aexit__ is followed at once by the
\* aclose of the client, one __aexit__ is logged per such attempt, and
\* nothing is open between attempts or after an error is returned.
C14_NonOKAttemptsReleased ==
    is_streaming =>
        /\ C14_AtMostOneOpen(resources, 1, 0, 0)
        /\ \A i \in 1..Len(resources) : resources[i] = "aexit" =>
              i < Len(resources) /\ resources[i + 1] = "aclose"
        /\ CountOf(resources, "aexit") =
              Cardinality({k \in SendIdx : trace[k].code \notin {0, 200}})
              + (IF ended # "no" THEN 1 ELSE 0)
        /\ (pc = "loop" \/ (pc = "done" /\ response.content = "error")) =>
              OpenClients(resources) = 0 /\ OpenStreams(resources) = 0

\* A streaming request that returned an error after three attempts answered
\* with a status other than 200.
C14_Witness ==
    /\ is_streaming /\ pc = "done" /\ response.content = "error"
    /\ response.media = "sse"
    /\ CountOf(resources, "aexit") = 3
    /\ resources[Len(resources)] = "aclose"

\* ---- C15 -----------------------------------------------------------------
\* C15: the generator of a 200 stream calls the pool exactly once, to record
\* a success of the bound credential, in the step that reads the first line
\* starting with "data: "; later lines, a raise and a client that goes away
\* add no call, so no failure is recorded for the attempt.
C15_OneSuccessNoFailure ==
    /\ success_recorded = DataLineRead
    /\ trace = IF DataLineRead
               THEN << Entry("send", current_file, TRUE, 200),
                       Entry("record", current_file, TRUE, 0) >>
               ELSE << Entry("send", current_file, TRUE, 200) >>

\* Scenario S4 with a raise: two data lines were read, then a read raised.
C15_Witness ==
    /\ pc = "done" /\ ended = "raise"
    /\ Len(lines) >= 2 /\ lines[1] = "wrapped" /\ lines[2] = "wrapped"
    /\ frames = <<"inner", "inner", "error500">>
    /\ SuccessCount(current_file) = 1

\* ---- C16 -----------------------------------------------------------------
\* What C16 says the client is sent for the lines read: the payloads that
\* parse as JSON, unwrapped when they carry "response", as they are
\* otherwise.
RECURSIVE C16_Forwarded(_)
C16_Forwarded(ls) ==
    IF ls = <<>> THEN <<>>
    ELSE LET rest == C16_Forwarded(Tail(ls))
         IN  CASE Head(ls) = "wrapped" -> <<"inner">> \o rest
               [] Head(ls) = "bare" -> <<"bare">> \o rest
               [] Head(ls) = "scalar" -> <<"scalar">> \o rest
               [] OTHER -> rest

\* C16 (as stated): the frames forwarded are, in order, those of the data
\* lines whose payload parses as JSON, each unwrapped or as it is; nothing
\* else is sent but the error frame of a generator that ended on a raise.
C16_FramesForwarded ==
    \/ frames = C16_Forwarded(lines)
    \/ ended = "raise" /\ frames = C16_Forwarded(lines) \o <<"error500">>

\* ---- C17 -----------------------------------------------------------------
\* C17: every record of the store has today_requests <= total_requests.
C17_TodayAtMostTotal ==
    \A i \in DOMAIN ip_cache :
        ip_cache[i].today_requests <= ip_cache[i].total_requests

\* After a day roll-over the address has one request today and two in all.
C17_Witness ==
    \E i \in DOMAIN ip_cache :
        /\ ip_cache[i].today_requests = 1
        /\ ip_cache[i].total_requests = 2
        /\ ip_cache[i].today_date = today_date_at(now)
        /\ last_call = [op |-> "record_request", ip |-> i, ret |-> TRUE]

\* ---- C18 -----------------------------------------------------------------
\* C18: every banned record carries the time of its ban: a positive epoch,
\* one of the instants of the past at which the manager was called.
C18_BannedHasTime ==
    \A i \in DOMAIN ip_cache :
        ip_cache[i].status = "banned" =>
            /\ ip_cache[i].banned_time > 0
            /\ ip_cache[i].banned_time \in Clock
            /\ ip_cache[i].banned_time <= now

\* A ban placed by an operator at a later instant than the first one.
C18_Witness ==
    \E i \in DOMAIN ip_cache :
        /\ ip_cache[i].status = "banned"
        /\ ip_cache[i].banned_time = now /\ now > FirstInstant
        /\ last_call = [op |-> "set_ip_status", ip |-> i, ret |-> TRUE]
        /\ ban_operations # EmptyStore

\* ---- C19 -----------------------------------------------------------------
\* C19 (as stated): in every state, a record whose today_date is not the
\* current day of the UTC+8 calendar has today_requests = 0.
C19_StaleDayCountsZero ==
    \A i \in DOMAIN ip_cache :
        ip_cache[i].today_date # today_date_at(now) =>
            ip_cache[i].today_requests = 0

\* ---- C20 -----------------------------------------------------------------
\* The step is a call check_ip_allowed(ip).
C20_Case(ip) ==
    /\ now' = now
    /\ last_call'.op = "check_ip_allowed" /\ last_call'.ip = ip

\* C20: check_ip_allowed(ip) returns false exactly when the record is banned
\* and now - banned_time < 86400, or is rate_limited and
\* now - last_request_time is below the record's rate_limit_seconds (60 when
\* the record stores none); otherwise it returns true, and a ban with
\* now - banned_time >= 86400 is lifted by the call.
C20_Step ==
    \A ip \in IPs : C20_Case(ip) =>
        LET known == ip \in DOMAIN ip_cache
            d == ip_cache[ip]
            ban_blocks == /\ known /\ d.status = "banned"
                          /\ now - d.banned_time < 86400
            limit == IF d.rate_limit_seconds = 0 THEN 60
                     ELSE d.rate_limit_seconds
            rate_blocks == /\ known /\ d.status = "rate_limited"
                           /\ now - d.last_request_time < limit
        IN  /\ last_call'.ret = ~(ban_blocks \/ rate_blocks)
            /\ (known /\ d.status = "banned" /\ now - d.banned_time >= 86400)
                   => ip_cache'[ip].status = "active"
            /\ (known /\ d.status = "banned" /\ now - d.banned_time < 86400)
                   => ip_cache'[ip].status = "banned"

C20_AdmissionDecision == [][C20_Step]_vars

\* A ban placed 86400 s ago was lifted by the admission check.
C20_Witness ==
    \E i \in DOMAIN ip_cache :
        /\ last_call = [op |-> "check_ip_allowed", ip |-> i, ret |-> TRUE]
        /\ ip_cache[i].status = "active"
        /\ ip_cache[i].auto_unbanned_time = now
        /\ now - ip_cache[i].banned_time = 86400

\* ---- C21 -----------------------------------------------------------------
\* The step is a call record_request(ip, ...).
C21_Case(ip) ==
    /\ now' = now
    /\ last_call'.op = "record_request" /\ last_call'.ip = ip

\* C21 (as stated): record_request(ip, ...) returns true, and updates the
\* record, exactly when check_ip_allowed(ip) would return true in the same
\* store at the same time; a record whose ban is 86400 s old or older is not
\* blocked by record_request.
C21_Step ==
    \A ip \in IPs : C21_Case(ip) =>
        LET known == ip \in DOMAIN ip_cache
            d == ip_cache[ip]
            ban_blocks == /\ known /\ d.status = "banned"
                          /\ ~(d.banned_time > 0 /\ now - d.banned_time >= 86400)
            limit == IF d.rate_limit_seconds = 0 THEN 60
                     ELSE d.rate_limit_seconds
            rate_blocks == /\ known /\ d.status = "rate_limited"
                           /\ now - d.last_request_time < limit
            allowed == ~(ban_blocks \/ rate_blocks)
        IN  /\ last_call'.ret = allowed
            /\ allowed =>
                  /\ ip \in DOMAIN ip_cache'
                  /\ ip_cache'[ip].total_requests =
                         (IF known THEN d.total_requests ELSE 0) + 1
                  /\ ip_cache'[ip].last_request_time = now
            /\ ~allowed => ip_cache' = ip_cache

C21_RecordFollowsCheck == [][C21_Step]_vars

\* ---- C22 -----------------------------------------------------------------
\* C22 (as stated): a call set_ip_status(ip, "banned", ...) is rejected and
\* leaves the store unchanged for every address whose today_requests is
\* below 80, an address without a record (no request today) included; with
\* today_requests >= 80 and a throttle that lets the operator through, it
\* succeeds and the address is banned.
C22_Step ==
    \A ip \in IPs, operator_ip \in Operators \cup {NoOperator} :
        set_ip_status(ip, "banned", None, operator_ip) =>
            LET today_requests == IF ip \in DOMAIN ip_cache
                                  THEN ip_cache[ip].today_requests ELSE 0
                throttle_hit ==
                    /\ operator_ip # NoOperator
                    /\ ~_check_ban_operation_limit(ban_operations,
                                                   operator_ip).allowed
            IN  /\ today_requests < 80 =>
                      /\ last_call'.ret = FALSE
                      /\ ip_cache' = ip_cache
                /\ (today_requests >= 80 /\ ~throttle_hit) =>
                      /\ last_call'.ret = TRUE
                      /\ ip_cache'[ip].status = "banned"

C22_BanGuard == [][C22_Step]_vars

\* ---- C23 -----------------------------------------------------------------
\* The timestamps of the operator's bans that the file holds, and how many
\* of them are at most `age' seconds old / younger than `age' seconds.
C23_Stamps(operator_ip) == operator_records(ban_operations, operator_ip)
C23_Younger(operator_ip, age) ==
    Cardinality({k \in 1..Len(C23_Stamps(operator_ip)) :
                    now - C23_Stamps(operator_ip)[k] < age})
C23_NotOlder(operator_ip, age) ==
    Cardinality({k \in 1..Len(C23_Stamps(operator_ip)) :
                    now - C23_Stamps(operator_ip)[k] <= age})

\* C23 (as stated): in a sequence of bans by one operator that pass the
\* user-protection guard, a ban is rejected while 3 bans of the operator are
\* younger than 3600 s, and is accepted once fewer than 3 of them are at
\* most 3600 s old, that is as soon as the oldest of three is more than
\* 3600 s old, even if the other two are still inside the window.
C23_Step ==
    \A ip \in IPs, operator_ip \in Operators :
        (/\ set_ip_status(ip, "banned", None, operator_ip)
         /\ ip \in DOMAIN ip_cache => ip_cache[ip].today_requests >= 80) =>
            /\ C23_Younger(operator_ip, 3600) >= 3 => last_call'.ret = FALSE
            /\ C23_NotOlder(operator_ip, 3600) < 3 => last_call'.ret = TRUE

C23_ThrottleWindow == [][C23_Step]_vars

\* ---- C24 -----------------------------------------------------------------
\* The calls whose ban was applied to the store, and those that returned
\* success.
C24_Applied == {c \in Calls : \/ calls[c].pc \in {"record_load", "record_save"}
                              \/ calls[c].pc = "done" /\ calls[c].ret}
C24_Returned == {c \in Calls : calls[c].pc = "done" /\ calls[c].ret}

\* C24 (as stated): however concurrent bans of one operator interleave, at
\* most 3 of them succeed within the window (here all calls fall in one
\* window), and every ban that returned success is present as a timestamp
\* of its own in the operator's ban-operation record.
C24_ThrottleUnderConcurrency ==
    \A operator_ip \in Operators :
        /\ Cardinality(C24_Applied) <= 3
        /\ Cardinality(C24_Returned)
               <= Len(operator_records(ban_operations, operator_ip))

\* ---- C25 -----------------------------------------------------------------
\* C25: the auto-unban sweep turns to active, with auto_unbanned_time set
\* to the time of the sweep, exactly the records that are banned with
\* now - banned_time >= 86400; every other record, a ban younger than
\* 86400 s included, is left as it was, and no record is added or removed.
C25_Step ==
    last_call'.op = "_auto_unban_expired_ips" =>
        /\ DOMAIN ip_cache' = DOMAIN ip_cache
        /\ \A i \in DOMAIN ip_cache :
              IF /\ ip_cache[i].status = "banned"
                 /\ now - ip_cache[i].banned_time >= 86400
              THEN ip_cache'[i] = [ip_cache[i] EXCEPT
                                      !.status = "active",
                                      !.auto_unbanned_time = now]
              ELSE ip_cache'[i] = ip_cache[i]

C25_SweepLiftsExpired == [][C25_Step]_vars

\* A sweep lifted a ban that was exactly 86400 s old and left one that was
\* 86399 s old.
C25_Witness ==
    /\ last_call.op = "_auto_unban_expired_ips"
    /\ \E i, j \in DOMAIN ip_cache :
          /\ ip_cache[i].status = "active"
          /\ ip_cache[i].auto_unbanned_time = now
          /\ now - ip_cache[i].banned_time = 86400
          /\ ip_cache[j].status = "banned"
          /\ now - ip_cache[j].banned_time = 86399

\* ---- C26 -----------------------------------------------------------------
\* The record is one the pruner must remove at the current time.
C26_Prunable(d) ==
    /\ d.status # "banned"
    /\ d.last_request_time # 0
    /\ \/ d.total_requests >= 300 /\ now - d.last_request_time >= 7 * 86400
       \/ /\ 50 <= d.total_requests /\ d.total_requests <= 299
          /\ now - d.last_request_time >= 5 * 86400
       \/ d.total_requests < 50 /\ now - d.last_request_time >= 3 * 86400

\* C26: a pruning sweep removes exactly the records that are not banned,
\* have a non-zero last_request_time and have been inactive for 7 days
\* (total_requests >= 300), 5 days (50..299) or 3 days (below 50); every
\* banned record and every other record is kept as it was.
C26_Step ==
    last_call'.op = "_cleanup_old_ips" =>
        /\ DOMAIN ip_cache' =
               {i \in DOMAIN ip_cache : ~C26_Prunable(ip_cache[i])}
        /\ \A i \in DOMAIN ip_cache' : ip_cache'[i] = ip_cache[i]

C26_TieredPruning == [][C26_Step]_vars

\* A sweep removed a record and kept the one with total_requests = 300 that
\* has been inactive for 6 days.
C26_Witness ==
    /\ last_call.op = "_cleanup_old_ips"
    /\ _cache_dirty
    /\ \E i \in DOMAIN ip_cache :
          /\ DOMAIN ip_cache = {i}
          /\ ip_cache[i].status = "active"
          /\ ip_cache[i].auto_unbanned_time = 0
          /\ ip_cache[i].total_requests = 300
          /\ now - ip_cache[i].last_request_time = 6 * 86400

\* ---- C27 -----------------------------------------------------------------
\* Every record's user_agents list has at most 10 entries, all different.
C27_Bounded ==
    \A i \in DOMAIN ip_cache :
        LET agents == ip_cache[i].user_agents
        IN  /\ Len(agents) <= 10
            /\ \A j, k \in 1..Len(agents) : j # k => agents[j] # agents[k]

\* A recorded request with a user agent the list does not hold appends it,
\* and drops the oldest entry when the list already holds 10; a request
\* without a user agent, or with one the list holds, leaves the list alone.
C27_Step ==
    \A ip \in IPs, user_agent \in SentUserAgents :
        (record_request(ip, DefaultEndpoint, user_agent, NoModel)
         /\ last_call'.ret) =>
            LET old == IF ip \in DOMAIN ip_cache
                       THEN ip_cache[ip].user_agents ELSE <<>>
                held == \E k \in 1..Len(old) : old[k] = user_agent
            IN  ip_cache'[ip].user_agents =
                    IF user_agent = "" \/ held THEN old
                    ELSE IF Len(old) = 10 THEN Tail(old) \o <<user_agent>>
                    ELSE old \o <<user_agent>>

\* C27: after any sequence of record_request calls every record's
\* user_agents list has at most 10 entries and no duplicates, and when an
\* 11th distinct user agent arrives the oldest entry is dropped.
C27_UserAgentsBounded == []C27_Bounded /\ [][C27_Step]_vars

\* The 11th and then the 12th distinct user agent arrived: the two oldest
\* entries are gone.
C27_Witness ==
    \E i \in DOMAIN ip_cache :
        /\ last_call = [op |-> "record_request", ip |-> i, ret |-> TRUE]
        /\ Len(ip_cache[i].user_agents) = 10
        /\ ip_cache[i].user_agents[1] = UserAgents[3]
        /\ ip_cache[i].user_agents[9] = UserAgents[11]
        /\ ip_cache[i].user_agents[10] = UserAgents[12]

\* ---- C28 -----------------------------------------------------------------
\* The addresses the ranking is made of, and the count it ranks them by.
C28_Ranked(include_banned) ==
    {i \in DOMAIN ip_cache : include_banned \/ ip_cache[i].status # "banned"}
C28_Key(i, rank_by) ==
    IF rank_by = "today" THEN ip_cache[i].today_requests
    ELSE ip_cache[i].total_requests

\* C28: get_ip_ranking, for page_size >= 1, ranks the addresses of the
\* store (the banned ones only if include_banned) by today_requests
\* (rank_by = "today") or total_requests (otherwise) in non-increasing
\* order; total_pages = ceil(total / page_size); the page is clamped into
\* [1, max(1, total_pages)]; has_next = (page < total_pages); has_prev =
\* (page > 1); and the items are the slice of the ranking that belongs to
\* the page: the j-th item of page p is a g-th address of the order, with
\* g = (p - 1) * page_size + j, and carries that address's counts.
C28_Step ==
    \A rank_by \in RankBys, page \in Pages, page_size \in PageSizes,
       include_banned \in BOOLEAN :
        get_ip_ranking(rank_by, page, page_size, include_banned) =>
            LET r == last_call'.ret
                ranked == C28_Ranked(include_banned)
                total == Cardinality(ranked)
                total_pages == CHOOSE n \in 0..total :
                                   /\ n * page_size >= total
                                   /\ (n - 1) * page_size < total
                last_page == IF total_pages > 1 THEN total_pages ELSE 1
                p == IF page < 1 THEN 1
                     ELSE IF page > last_page THEN last_page ELSE page
                before == (p - 1) * page_size
                on_page == IF total - before >= page_size THEN page_size
                           ELSE IF total - before > 0 THEN total - before
                           ELSE 0
            IN  /\ r.total = total
                /\ r.total_pages = total_pages
                /\ r.page_size = page_size
                /\ r.page = p
                /\ r.has_next = (p < total_pages)
                /\ r.has_prev = (p > 1)
                /\ Len(r.items) = on_page
                /\ \A j \in 1..Len(r.items) :
                      LET ip == r.items[j].ip
                          key == C28_Key(ip, rank_by)
                      IN  /\ ip \in ranked
                          /\ r.items[j].today_requests =
                                 ip_cache[ip].today_requests
                          /\ r.items[j].total_requests =
                                 ip_cache[ip].total_requests
                          /\ r.items[j].status = ip_cache[ip].status
                          /\ Cardinality({i \in ranked :
                                 C28_Key(i, rank_by) > key}) <= before + j - 1
                          /\ Cardinality({i \in ranked :
                                 C28_Key(i, rank_by) >= key}) >= before + j
                          /\ \A k \in 1..Len(r.items) :
                                 k # j => r.items[k].ip # ip
                          /\ j > 1 => C28_Key(r.items[j - 1].ip, rank_by) >= key

C28_RankingPaged == [][C28_Step]_vars

\* The second of three pages of one address each, ranked by today's count
\* with the banned addresses left out: it holds the address with 80
\* requests today, behind the one with 90.
C28_Witness ==
    /\ last_call.op = "get_ip_ranking"
    /\ last_call.ret.page = 2 /\ last_call.ret.total_pages = 2
    /\ last_call.ret.page_size = 1
    /\ last_call.ret.has_prev /\ ~last_call.ret.has_next
    /\ Len(last_call.ret.items) = 1
    /\ last_call.ret.items[1].today_requests = 80
    /\ last_call.ret.items[1].total_requests = 300
    /\ \E i \in DOMAIN ip_cache : ip_cache[i].status = "banned"

\* ---- C29 -----------------------------------------------------------------
\* What a step adds to the trace: one attempt, from its send on.
C29_Added == SubSeq(trace', Len(trace) + 1, Len(trace'))

\* C29: whenever an attempt rotates the pool or disables a credential, the
\* attempt was answered by the upstream and a failed call with the status
\* of that answer has been recorded on the credential of the attempt before
\* the rotation or the disabling, which disables that same credential; this
\* holds on every path of the streaming and of the unary state machine.
C29_Step ==
    \A j \in 1..Len(C29_Added) :
        C29_Added[j].op \in {"rotate", "disable"} =>
            /\ C29_Added[1].op = "send"
            /\ C29_Added[1].code # 0
            /\ \E i \in 2..(j - 1) :
                   C29_Added[i] = Entry("record", C29_Added[1].cred, FALSE,
                                        C29_Added[1].code)
            /\ C29_Added[j].op = "disable" =>
                   C29_Added[j].cred = C29_Added[1].cred

C29_RecordBeforeRotate == [][C29_Step]_vars

\* A unary request whose first attempt got 429 (recorded, then rotated) and
\* whose second attempt got 403 on the next credential (recorded, then
\* disabled and rotated).
C29_Witness ==
    /\ ~is_streaming
    /\ Len(trace) >= 7
    /\ trace[1].op = "send" /\ trace[1].code = 429
    /\ trace[2] = Entry("record", trace[1].cred, FALSE, 429)
    /\ trace[3].op = "rotate"
    /\ trace[4].op = "send" /\ trace[4].code = 403
    /\ trace[4].cred # trace[1].cred
    /\ trace[5] = Entry("record", trace[4].cred, FALSE, 403)
    /\ trace[6] = Entry("disable", trace[4].cred, TRUE, 0)
    /\ trace[7].op = "rotate"

\* ---- C30 -----------------------------------------------------------------
\* A store of ban operations that holds only timestamps younger than the
\* window and no operator with an empty list.
C30_Compact(data) ==
    \A o \in DOMAIN data :
        /\ data[o] # <<>>
        /\ \A k \in 1..Len(data[o]) : now - data[o][k] < 3600

\* The ban attempts that read the store: those made for an operator that
\* pass the user-protection guard.
C30_Reads(ip, operator_ip) ==
    /\ set_ip_status(ip, "banned", None, operator_ip)
    /\ ip \in DOMAIN ip_cache => ip_cache[ip].today_requests >= 80

\* C30 (as stated): after every read of the ban-operation store, the data
\* returned to the caller and the data left in the file hold only timestamps
\* younger than 3600 s and no operator with an empty list, whatever the mix
\* of expired and unexpired timestamps across operators.
C30_Step ==
    \A ip \in IPs, operator_ip \in Operators :
        C30_Reads(ip, operator_ip) =>
            /\ C30_Compact(_load_ban_operations(ban_operations).data)
            /\ C30_Compact(_load_ban_operations(ban_operations).file)

C30_LoadCompacts == [][C30_Step]_vars


\* ---- C31 -----------------------------------------------------------------
\* The ban of the record is one that the admission check lifts.
C31_Expired(d) ==
    d.status = "banned" /\ d.banned_time > 0 /\ now - d.banned_time >= 86400

\* C31: a call check_ip_allowed(ip) creates and removes no record, leaves
\* the record of every other address as it was, and leaves the record of ip
\* as it was with the dirty flag untouched, unless that record holds an
\* expired ban: then status and auto_unbanned_time are the only fields that
\* change and the dirty flag is set.  The ban-operation file is not written.
C31_Step ==
    \A k \in DOMAIN KnownIPs :
        check_ip_allowed(KnownIPs[k]) =>
            LET ip == KnownIPs[k]
            IN  /\ DOMAIN ip_cache' = DOMAIN ip_cache
                /\ \A i \in DOMAIN ip_cache \ {ip} : ip_cache'[i] = ip_cache[i]
                /\ ban_operations' = ban_operations
                /\ IF ip \in DOMAIN ip_cache /\ ip_cache'[ip] # ip_cache[ip]
                   THEN /\ C31_Expired(ip_cache[ip])
                        /\ ip_cache'[ip] =
                               [ip_cache[ip] EXCEPT
                                   !.status = "active",
                                   !.auto_unbanned_time =
                                       ip_cache'[ip].auto_unbanned_time]
                        /\ _cache_dirty'
                   ELSE _cache_dirty' = _cache_dirty

C31_CheckFrame == [][C31_Step]_vars

\* The store holds two addresses; a check of the first, whose ban had
\* expired, lifted it and set the flag, and the second record, a ban that
\* has not expired, is as it was loaded.
C31_Witness ==
    /\ last_call = [op |-> "check_ip_allowed", ip |-> KnownIPs[1], ret |-> TRUE]
    /\ DOMAIN ip_cache = SweepIPs
    /\ ip_cache[KnownIPs[1]].status = "active"
    /\ ip_cache[KnownIPs[1]].auto_unbanned_time = now
    /\ ip_cache[KnownIPs[1]].last_request_time > 0
    /\ ip_cache[KnownIPs[2]].status = "banned"
    /\ now - ip_cache[KnownIPs[2]].banned_time < 86400
    /\ _cache_dirty


\* ---- C32 -----------------------------------------------------------------
\* With the flag clear, ip_stats.toml holds the store.
C32_Saved == ~_cache_dirty => ip_stats = ip_cache

\* C32: every step that changes the store leaves the dirty flag set (the
\* change and the flag are one critical section); the flag is cleared only
\* by a save that went through, which leaves the store as it was and the
\* file equal to it; a save that failed leaves the flag set; nothing but a
\* save writes the file; and whenever the flag is clear the file equals the
\* store.
C32_Step ==
    /\ ip_cache' # ip_cache => _cache_dirty'
    /\ (_cache_dirty /\ ~_cache_dirty') =>
           /\ _save_ip_data(TRUE)
           /\ ip_cache' = ip_cache
           /\ ip_stats' = ip_cache
    /\ _save_ip_data(FALSE) => _cache_dirty'
    /\ ip_stats' # ip_stats => \E ok \in BOOLEAN : _save_ip_data(ok)

C32_DirtyCoversChanges == []C32_Saved /\ [][C32_Step]_vars

\* A save went through, the store changed, and the next save failed: the
\* file still holds the older store and the flag is set.
C32_Witness ==
    /\ last_call = [op |-> "_save_ip_data", ip |-> "", ret |-> FALSE]
    /\ _cache_dirty
    /\ ip_stats # EmptyStore
    /\ ip_stats # ip_cache


\* ---- C33 -----------------------------------------------------------------
\* C33 (as stated): no call holds the store lock while it is suspended in
\* the HTTP calls of the location resolver, in record_request or in
\* set_ip_status.
C33_ResolverOutsideLock ==
    \A c \in Tasks : calls[c].pc = "locating" => _cache_lock # c

\* ---- C34 -----------------------------------------------------------------
\* C34 (as stated): no call holds the store lock while it reads or writes
\* the ban-operation file, in the throttle check or when it records a ban.
C34_BanFileOutsideLock ==
    \A c \in Tasks :
        calls[c].pc \in {"limit_check", "record_load", "record_save"} =>
            _cache_lock # c


\* ---- C35 -----------------------------------------------------------------
\* How often initialize() did the thing.
C35_Times(what) == Cardinality({k \in 1..Len(started) : started[k] = what})

\* C35 (as stated): whatever the calls of initialize() and get_ip_manager()
\* and their interleaving, the file is loaded at most once and each of the
\* two periodic tasks is started at most once, and exactly once when the
\* manager is initialized.
C35_StartedOnce ==
    \A k \in DOMAIN Started :
        /\ C35_Times(Started[k]) <= 1
        /\ _initialized => C35_Times(Started[k]) = 1

\* ---- C38 -----------------------------------------------------------------
\* C38 (as stated): every handle get_ip_manager() has returned is
\* initialized, so that a call on it does not raise 'not initialized'.
C38_HandleInitialized ==
    \A c \in Tasks :
        (calls[c].pc = "done" /\ calls[c].op = "get_ip_manager") =>
            calls[c].ret


\* ---- C36 -----------------------------------------------------------------
\* C36: a record_request call that returns false leaves the store as it
\* was, every field of every record (total_requests, today_requests,
\* last_request_time, user_agents, models_used and endpoints among them),
\* and does not touch the dirty flag.
C36_Step ==
    \A ip \in IPs, client \in Clients :
        (/\ record_request(ip, DefaultEndpoint, client[1], client[2])
         /\ ~last_call'.ret) =>
            /\ ip_cache' = ip_cache
            /\ _cache_dirty' = _cache_dirty
            /\ ban_operations' = ban_operations

C36_RefusalChangesNothing == [][C36_Step]_vars

\* A request of an address that is rate limited was refused; its record
\* holds the user agent, the model and the endpoint of an earlier request.
C36_Witness ==
    /\ last_call.op = "record_request" /\ ~last_call.ret
    /\ last_call.ip \in DOMAIN ip_cache
    /\ ip_cache[last_call.ip].status = "rate_limited"
    /\ ip_cache[last_call.ip].user_agents # <<>>
    /\ ip_cache[last_call.ip].models_used # EmptyStore
    /\ ip_cache[last_call.ip].endpoints # EmptyStore


\* ---- C37 -----------------------------------------------------------------
\* The list `new' holds nothing that `old' did not hold.
C37_Kept(old, new) ==
    /\ Len(new) <= Len(old)
    /\ \A k \in 1..Len(new) : \E j \in 1..Len(old) : old[j] = new[k]

\* No operator of the file got a timestamp, except `but'.
C37_NothingAppended(but) ==
    \A o \in DOMAIN ban_operations' \ {but} :
        C37_Kept(operator_records(ban_operations, o), ban_operations'[o])

\* C37: a set_ip_status call that returns failure leaves the store and the
\* dirty flag as they were and appends no timestamp to any operator's list
\* of ban operations; a successful ban with an operator appends exactly one
\* timestamp, the current time, to that operator's list; any other
\* successful call leaves the file as it was.
C37_Step ==
    \A ip \in IPs, status \in IPStatuses \cup {"unknown"},
       rate_limit_seconds \in {None, 30},
       operator_ip \in Operators \cup {NoOperator} :
        set_ip_status(ip, status, rate_limit_seconds, operator_ip) =>
            IF ~last_call'.ret
            THEN /\ ip_cache' = ip_cache
                 /\ _cache_dirty' = _cache_dirty
                 /\ C37_NothingAppended(NoOperator)
            ELSE IF status = "banned" /\ operator_ip # NoOperator
            THEN LET new == operator_records(ban_operations', operator_ip)
                 IN  /\ new # <<>>
                     /\ new[Len(new)] = now
                     /\ C37_Kept(operator_records(ban_operations, operator_ip),
                                 SubSeq(new, 1, Len(new) - 1))
                     /\ C37_NothingAppended(operator_ip)
            ELSE ban_operations' = ban_operations

C37_FailureChangesNothing == [][C37_Step]_vars

\* The operator's fourth ban within the hour was refused: the file holds
\* the three timestamps of the earlier bans and the address is still banned
\* by the third.
C37_Witness ==
    /\ last_call.op = "set_ip_status" /\ ~last_call.ret
    /\ \E o \in Operators :
          /\ o \in DOMAIN ban_operations
          /\ Len(ban_operations[o]) = 3
          /\ \A k \in 1..3 : now - ban_operations[o][k] < 3600
          /\ ip_cache[last_call.ip].status = "banned"
          /\ ip_cache[last_call.ip].banned_time = ban_operations[o][3]
          /\ ip_cache[last_call.ip].today_requests >= 80


\* ---- C39 -----------------------------------------------------------------
\* The calls of record_request for the address that have returned true.
C39_Accepted(ip) ==
    {d \in Tasks : /\ calls[d].pc = "done" /\ calls[d].op = "record_request"
                   /\ calls[d].ip = ip /\ calls[d].ret}

\* C39: when record_request accepts a request of an address that is rate
\* limited with rate_limit_seconds = R, the last request of the loaded record
\* and every request record_request accepted for that address before are at
\* least R seconds old, whatever calls of check_ip_allowed, record_request
\* and set_ip_status run concurrently.
C39_Step ==
    \A c \in Tasks, ip \in SweepIPs :
        (/\ RecordLocked(c, ip, UserAgents[1])
         /\ calls'[c].pc = "done" /\ calls'[c].ret
         /\ ip \in DOMAIN ip_cache
         /\ ip_cache[ip].status = "rate_limited") =>
            /\ now - ip_cache[ip].last_request_time
                   >= ip_cache[ip].rate_limit_seconds
            /\ \A d \in C39_Accepted(ip) :
                   now - calls[d].at >= ip_cache[ip].rate_limit_seconds

C39_AcceptedApart == [][C39_Step]_vars

\* Two tasks had their request of the rate limited address accepted, one
\* limit after the loaded request and one limit after that.
C39_Witness ==
    /\ C39_Accepted(KnownIPs[1]) = {1, 2}
    /\ calls[1].at = FirstInstant + RateLimit
    /\ calls[2].at = FirstInstant + 2 * RateLimit
    /\ ip_cache[KnownIPs[1]].status = "rate_limited"
    /\ ip_cache[KnownIPs[1]].rate_limit_seconds = RateLimit

\* ---- a cancelled streaming request ---------------------------------------
\* The task that runs send_gemini_request is cancelled while it is suspended
\* in an await of a streaming attempt.  asyncio.CancelledError derives from
\* BaseException, so `except Exception' (lines 281-285, 461-467) does not
\* catch it and no `finally' guards the attempt: the error leaves the
\* function from the await it was raised in.
Cancelled(e, r) ==
    /\ Commit(e)
    /\ pc' = "cancelled"
    /\ resources' = r
    /\ UNCHANGED <<cfgVars, ipVars, genVars, attempt, body, response>>

\* Line 275: cancelled in `await stream_ctx.__aenter__()'; the client of
\* line 268 exists and the stream was not entered.
CancelEntering ==
    /\ InLoop /\ is_streaming
    /\ Cancelled(Eng, resources \o <<"client">>)

\* Lines 282 and 347: cancelled in `await resp.aread()' of a non-200 answer.
CancelReading ==
    /\ InLoop /\ is_streaming
    /\ \E status \in Statuses \ {200} :
         Cancelled(upstream(Eng, status), open_stream(resources))

\* Lines 297-300 and 362-365: cancelled in `await
\* credential_manager.record_api_call_result(...)', before or after the
\* pool took the failure.
CancelRecording ==
    /\ InLoop /\ is_streaming
    /\ current_file # None
    /\ \E status \in Statuses \ {200}, recorded \in BOOLEAN :
         LET e0 == upstream(Eng, status)
         IN  Cancelled(IF recorded THEN record_if_bound(e0, FALSE, status)
                       ELSE e0,
                       open_stream(resources))

\* Lines 307 and 373: cancelled in `await client.aclose()', after
\* __aexit__ returned.
CancelClosing ==
    /\ InLoop /\ is_streaming
    /\ \E status \in Statuses \ {200} :
         Cancelled(record_if_bound(upstream(Eng, status), FALSE, status),
                   cleanup(open_stream(resources)))

\* Lines 309-325 and 375-426: cancelled while the credential is rotated or
\* refreshed or in `await asyncio.sleep(delay)' before the retry; the
\* cleanup of lines 302-307 / 368-373 has run.
CancelRetrying ==
    /\ InLoop /\ is_streaming
    /\ attempt < max_retries
    /\ \E status \in Statuses \ {200}, rotated \in BOOLEAN :
         LET e1 == record_if_bound(upstream(Eng, status), FALSE, status)
         IN  /\ \/ status = 429 /\ retry_429_enabled
                \/ 500 <= status /\ status < 600
                \/ _check_should_auto_ban(status)
             /\ rotated => status = 429
             /\ Cancelled(IF rotated THEN force_rotate_credential(e1) ELSE e1,
                          cleanup(open_stream(resources)))

NextCancel ==
    \/ Next
    \/ CancelEntering
    \/ CancelReading
    \/ CancelRecording
    \/ CancelClosing
    \/ CancelRetrying

SpecCancel == Init /\ [][NextCancel]_vars

\* C40 (as stated): when a streaming request is cancelled at a suspension
\* point of send_gemini_request after the streaming client was created and
\* before the response is handed to the generator, the stream context and
\* the HTTP client of that attempt are closed.
C40_CancelReleases ==
    pc = "cancelled" =>
        OpenClients(resources) = 0 /\ OpenStreams(resources) = 0

====
